---- MODULE Spec2Model ----
(***************************************************************************)
(* The commit pipeline of crates/core/src/kernel/transaction/mod.rs:       *)
(* CommitBuilder -> PreCommit -> PreparedCommit -> PostCommit, run by      *)
(* several pipelines against one shared delta log.  Every await of the     *)
(* source is one action; what lies between two awaits belongs to the       *)
(* action of the earlier await.                                            *)
(* Beside it CommitData (its constructor and its bytes) and the            *)
(* PartitionWriter of crates/core/src/operations/write/writer.rs, each     *)
(* under a specification of its own.                                       *)
(***************************************************************************)
EXTENDS Integers, Sequences, FiniteSets, TLC

\* ------------------------------------------------------------------ bounds
\* Number of commits writers outside the pipelines may install.
MaxExternal == 1
\* The positive max_retries a builder is given with_max_retries, besides 0
\* and the default, DEFAULT_RETRIES.
MaxRetriesInput == 1

\* The highest version a commit that enters the post-commit stage holds.
MaxPostVersion == 2
\* The highest checkpointInterval of a table's configuration.
MaxCheckpointInterval == 2

\* The longest action list and the longest list of application
\* transactions CommitData::new is called with.
MaxActions == 3
MaxTxns == 2

\* The rows a partition writer is given over all its write calls, and the
\* highest target_file_size, write_batch_size and upload part size, in units
\* of the estimated size of one row.
MaxRows == 12
MaxTargetFileSize == 13
MaxWriteBatchSize == 2
MaxPartSize == 2
\* The rows given to a writer whose caller goes on after a failed write.
MaxKeptRows == 4

DEFAULT_RETRIES == 15
\* let max_concurrent_tasks = 10
max_concurrent_tasks == 10

\* The two pipelines of the concurrency claims; every further writer of the
\* table is an outside writer.
Pipelines == {"A", "B"}
\* The author of a log entry: a pipeline, an outside writer, or the table's creator.
External == "external"
Base == "base"
None == "none"
\* table_data: Option<&dyn TableReference> = None
NoTable == -1
MaxVersion == Cardinality(Pipelines) + MaxExternal + 2
Versions == 0..MaxVersion

\* One conditional-put driver and one rename-based driver.
LogStoreNames == {"DefaultLogStore", "S3DynamoDbLogStore"}

VARIABLES
    log,              \* version -> author of the installed entry, or None
    tmp,              \* staged _commit_<uuid>.json.tmp objects, by staging pipeline
    logStoreName,     \* log_store.name()
    external,         \* commits installed by outside writers so far
    pc,               \* each pipeline's position
    table_data,       \* the caller's table reference: its snapshot version, or NoTable
    actions_valid,    \* whether the protocol gate accepts the pipeline's actions
    max_retries,
    commit_or_bytes,  \* "none", "LogBytes" or "TmpCommit"
    read_snapshot,    \* version of the pipeline's private snapshot clone
    attempt_number,
    latest_version,
    steps,
    version,
    result,           \* what the pipeline returned to its caller
    ops,              \* each pipeline's calls on storage and on the checker, in order
    post,             \* each pipeline's PostCommit: its options and its locals
    finalized,        \* what PostCommit::into_future returned
    checkpoints,      \* versions a checkpoint was written for
    cleaned,          \* versions whose log file the expired-log cleanup deleted
    commit_data,      \* a call of CommitData::new: its arguments and what it returned
    writer,           \* a PartitionWriter: its fields and the locals of its calls
    process           \* the process: DELTARS_UPLOAD_PART_SIZE and the static UPLOAD_SIZE

vars == <<log, tmp, logStoreName, external, pc, table_data, actions_valid, max_retries,
          commit_or_bytes, read_snapshot, attempt_number, latest_version,
          steps, version, result, ops, post, finalized, checkpoints, cleaned, commit_data,
          writer, process>>

\* What only the post-commit stage writes.
postvars == <<post, finalized, checkpoints, cleaned>>

shared == <<log, tmp, logStoreName, external>>

\* ------------------------------------------------------------- log store
Installed(v) == v \in Versions /\ log[v] # None

\* get_latest_version(hint): the highest installed version.
GetLatestVersion(hint) ==
    IF \E v \in Versions : Installed(v)
    THEN CHOOSE v \in Versions : Installed(v) /\ \A w \in Versions : Installed(w) => w <= v
    ELSE hint

\* A driver that puts blindly.
InstallRefusedMutant(v) == FALSE
\* write_commit_entry installs only where nothing is installed.
InstallRefused(v) == Installed(v)

\* The outcome of write_commit_entry(v, payload): fault is a storage failure.
WriteCommitEntry(v, fault) ==
    IF InstallRefused(v) THEN "VersionAlreadyExists"
    ELSE IF fault THEN "InstallError"
    ELSE "Ok"

\* The log after write_commit_entry(v) by author w returned r.
LogAfterWrite(v, w, r) ==
    IF r = "Ok" /\ v \in Versions THEN [log EXCEPT ![v] = w] ELSE log

\* The staged objects after write_commit_entry with payload kind k returned r:
\* a TmpCommit is renamed into the version.
TmpAfterWrite(p, k, r) ==
    IF r = "Ok" /\ k = "TmpCommit" THEN tmp \ {p} ELSE tmp

\* abort_commit_entry deletes the staged temp, and is a no-op for LogBytes.
TmpAfterAbort(p, k, ok) ==
    IF ok /\ k = "TmpCommit" THEN tmp \ {p} ELSE tmp

\* ------------------------------------------------------------ pure parts
\* A prepare stage that takes the default driver alone for a conditional-put
\* driver.
UsesConditionalPutMutant(name) == name = "LakeFSLogStore"
\* ["LakeFSLogStore", "DefaultLogStore"].contains(log_store.name())
UsesConditionalPut(name) == name \in {"LakeFSLogStore", "DefaultLogStore"}

\* One attempt too many.
TotalRetriesMutant(m) == m + 2
\* let total_retries = this.max_retries + 1
TotalRetries(m) == m + 1

\* An install at the latest version itself, and one that skips a version.
NextVersionMutant(latest) == latest
NextVersionGapMutant(latest) == latest + 2
\* let version: i64 = latest_version + 1
NextVersion(latest) == latest + 1

\* The checker fed the version below the one it has to read.
CheckedVersionMutant(latest, s) == latest - s
\* The version whose winning commit the checker reads when `s` steps are left:
\* WinningCommitSummary::try_new(log_store, latest - steps, (latest - steps) + 1).
CheckedVersion(latest, s) == (latest - s) + 1

\* The attempts counted, not the retries.
NumRetriesMutant(attempt) == attempt
\* num_retries: attempt_number as u64 - 1
NumRetries(attempt) == attempt - 1

Event(o, v, n, r) == [op |-> o, v |-> v, n |-> n, r |-> r]
Returned(k, a, n) == [kind |-> k, arg |-> a, num_retries |-> n]
NotReturned == Returned("none", 0, 0)

\* ------------------------------------------------------------ CommitData
\* An action of a commit: its variant and what tells it from the others of
\* the variant.
Action(k, i) == [kind |-> k, id |-> i]

\* All sequences over S of length at most n.
SeqsUpTo(S, n) == UNION {[1..m -> S] : m \in 0..n}

\* The caller's actions: add-file, commit-info and application-txn actions.
ActionInputs == {Action("Add", "f1"), Action("CommitInfo", "caller"), Action("Txn", "t1")}
\* The application ids of the caller's application transactions.
TxnInputs == {"t1", "t2"}

\* The number of actions of variant k in a list.
CountKind(as, k) == Cardinality({i \in 1..Len(as) : as[i].kind = k})

\* A constructor that pushes its CommitInfo whatever the caller supplied.
CommitDataNewMutant(actions, app_transactions) ==
    Append(actions, Action("CommitInfo", "synthesized"))
        \o [j \in 1..Len(app_transactions) |-> Action("Txn", app_transactions[j])]
\* CommitData::new, its actions: the caller's, then a CommitInfo made of the
\* operation where the caller supplied none, then one Txn per application
\* transaction.
CommitDataNew(actions, app_transactions) ==
    (IF ~\E i \in 1..Len(actions) : actions[i].kind = "CommitInfo"
     THEN Append(actions, Action("CommitInfo", "synthesized"))
     ELSE actions)
        \o [j \in 1..Len(app_transactions) |-> Action("Txn", app_transactions[j])]

NoData ==
    [stage |-> "none", actions |-> <<>>, app_transactions |-> <<>>, out |-> <<>>,
     ret |-> "none", bytes |-> <<>>]

\* The string an action carries (a path, an engine name, an application id),
\* as its characters: among them a line feed, a quote and a backslash, and a
\* backslash before an n.
Text(id) ==
    CASE id = "f1" -> <<"a", "\n", "b">>
      [] id = "caller" -> <<"\"", "c">>
      [] id = "t1" -> <<"t", "\\">>
      [] id = "t2" -> <<"n">>
      [] OTHER -> <<"\\", "n">>

\* A writer of strings that escapes nothing.
EscapeCharMutant(c) == <<c>>
\* serde_json's string escapes: a line feed, a quote and a backslash are
\* written as a backslash and a second character.
EscapeChar(c) ==
    CASE c = "\n" -> <<"\\", "n">>
      [] c = "\"" -> <<"\\", "\"">>
      [] c = "\\" -> <<"\\", "\\">>
      [] OTHER -> <<c>>

RECURSIVE Escape(_)
Escape(s) == IF s = <<>> THEN <<>> ELSE EscapeChar(Head(s)) \o Escape(Tail(s))

\* serde_json::to_string(action): one JSON object, the variant's name as its
\* key, with no line feed in it.
to_string(a) == <<"{", a.kind, ":", "\"">> \o Escape(Text(a.id)) \o <<"\"", "}">>

\* A join that ends every line, the last one too.
RECURSIVE JoinMutant(_)
JoinMutant(lines) ==
    IF lines = <<>> THEN <<>> ELSE Head(lines) \o <<"\n">> \o JoinMutant(Tail(lines))
\* jsons.join("\n")
RECURSIVE Join(_)
Join(lines) ==
    IF lines = <<>> THEN <<>>
    ELSE IF Len(lines) = 1 THEN lines[1]
    ELSE lines[1] \o <<"\n">> \o Join(Tail(lines))

\* CommitData::get_bytes: bad is the first action serde_json::to_string fails
\* on, 0 where it fails on none.
GetBytes(actions, bad) ==
    IF bad # 0
    THEN [ret |-> "SerializeLogJson", bytes |-> <<>>]
    ELSE [ret |-> "Ok", bytes |-> Join([i \in 1..Len(actions) |-> to_string(actions[i])])]

\* The lines of a payload, as a reader of the log splits it: the pieces
\* between line feeds, without a last empty piece.
RECURSIVE Lines(_, _)
Lines(bytes, cur) ==
    IF bytes = <<>> THEN (IF cur = <<>> THEN <<>> ELSE <<cur>>)
    ELSE IF Head(bytes) = "\n" THEN <<cur>> \o Lines(Tail(bytes), <<>>)
    ELSE Lines(Tail(bytes), Append(cur, Head(bytes)))

\* The characters of a JSON string's body, "invalid" where a quote is left
\* unescaped or an escape is cut short.
RECURSIVE Unescape(_)
Unescape(body) ==
    IF body = <<>> THEN <<>>
    ELSE IF Head(body) = "\"" THEN <<"invalid">>
    ELSE IF Head(body) # "\\" THEN <<Head(body)>> \o Unescape(Tail(body))
    ELSE IF Len(body) < 2 THEN <<"invalid">>
    ELSE <<IF body[2] = "n" THEN "\n" ELSE body[2]>> \o Unescape(Tail(Tail(body)))

\* serde_json::from_str of one line: the action's variant and its string.
ParseLine(line) ==
    IF /\ Len(line) >= 6
       /\ line[1] = "{" /\ line[3] = ":" /\ line[4] = "\""
       /\ line[Len(line) - 1] = "\"" /\ line[Len(line)] = "}"
    THEN [kind |-> line[2], text |-> Unescape(SubSeq(line, 5, Len(line) - 2))]
    ELSE [kind |-> "invalid", text |-> <<>>]

\* ------------------------------------------------------ upload_part_size
\* A usize of bytes, in two limbs: hi * 2^30 + lo with lo below 2^30.
GiB == 1024 * 1024 * 1024
Size(hi, lo) == [hi |-> hi, lo |-> lo]
Less(a, b) == a.hi < b.hi \/ (a.hi = b.hi /\ a.lo < b.lo)

\* const DEFAULT_UPLOAD_PART_SIZE: usize = 1024 * 1024 * 5
DEFAULT_UPLOAD_PART_SIZE == Size(0, 1024 * 1024 * 5)
\* 1024 * 1024 * 1024 * 5
MAX_UPLOAD_PART_SIZE == Size(5, 0)

\* What std::env::var("DELTARS_UPLOAD_PART_SIZE") can find: no variable,
\* text that is no number (a sign, a blank or a unit in it), digits of a
\* number above usize::MAX, or the digits of a usize.
EnvValue(kind, size) == [kind |-> kind, size |-> size]
Unset == EnvValue("unset", Size(0, 0))
EnvValues ==
    {Unset, EnvValue("text", Size(0, 0)), EnvValue("huge", Size(0, 0))} \cup
    {EnvValue("number", z) :
        z \in {Size(0, 0), Size(0, 1),
               Size(0, 1024 * 1024 * 5 - 1), Size(0, 1024 * 1024 * 5),
               Size(0, 1024 * 1024 * 5 + 1), Size(1, 0), Size(4, GiB - 1),
               Size(5, 0), Size(5, 1), Size(6, 0)}}

\* .ok().and_then(|s| s.parse::<usize>().ok())
ParsesAsUsize(env) == env.kind = "number"

\* A clamp without the upper limit.
ClampPartSizeMutant(size) ==
    IF Less(size, DEFAULT_UPLOAD_PART_SIZE) THEN DEFAULT_UPLOAD_PART_SIZE ELSE size
\* The closure of .map: the least part size for a smaller value, the
\* greatest for a greater one, else the value.
ClampPartSize(size) ==
    IF Less(size, DEFAULT_UPLOAD_PART_SIZE) THEN DEFAULT_UPLOAD_PART_SIZE
    ELSE IF Less(MAX_UPLOAD_PART_SIZE, size) THEN MAX_UPLOAD_PART_SIZE
    ELSE size

\* The closure of get_or_init: the clamped value of the variable, or the
\* default where there is none to parse.
InitUploadSize(env) ==
    IF ParsesAsUsize(env) THEN ClampPartSize(env.size) ELSE DEFAULT_UPLOAD_PART_SIZE

\* The process before the first call of upload_part_size: UPLOAD_SIZE is an
\* empty OnceLock.
NoProcess ==
    [env |-> Unset, UPLOAD_SIZE |-> [set |-> FALSE, value |-> Size(0, 0)],
     ret |-> [some |-> FALSE, value |-> Size(0, 0)], first_env |-> Unset,
     called_after_change |-> FALSE]

\* ------------------------------------------------ partition writer, pure parts
\* What the encoded size of a file is off its estimate, by the data's
\* compression and the file's footer: a unit less, nothing, or a unit more.
SizeDrifts == {-1, 0, 1}

\* The bytes of a closed parquet file that was estimated at est: never
\* nothing, a closed file has its footer.
EncodedSize(est, drift) == IF est + drift >= 1 THEN est + drift ELSE 1

\* The rows the encoder takes into a row group before it writes the group
\* out into the buffer (WriterProperties::max_row_group_size).
RowGroupSizes == {2, MaxRows + 1}

\* target_file_size of a PartitionWriterConfig.
TargetFileSizes == {1, 3, MaxTargetFileSize}

RECURSIVE SumSeq(_)
SumSeq(ps) == IF ps = <<>> THEN 0 ELSE Head(ps) + SumSeq(Tail(ps))

\* A write that does not look at the batch's schema.
WriteEntryMutant(schemaOk, num_rows) ==
    IF num_rows = 0 THEN "Ok" ELSE "chunks"
\* PartitionWriter::write up to its loop: SchemaMismatch for a batch of another
\* schema, Ok at once for a batch without rows, else the loop over the chunks.
WriteEntry(schemaOk, num_rows) ==
    IF ~schemaOk THEN "SchemaMismatch"
    ELSE IF num_rows = 0 THEN "Ok"
    ELSE "chunks"

\* usize::min(self.config.write_batch_size, max_offset - offset)
ChunkLength(write_batch_size, max_offset, offset) ==
    IF write_batch_size < max_offset - offset THEN write_batch_size ELSE max_offset - offset

\* A flush only above the target.
ShouldFlushMutant(buffer_len, in_progress_size, target_file_size) ==
    buffer_len + in_progress_size > target_file_size
\* estimated_size >= self.config.target_file_size, with estimated_size =
\* self.buffer.len() + self.arrow_writer.in_progress_size()
ShouldFlush(buffer_len, in_progress_size, target_file_size) ==
    buffer_len + in_progress_size >= target_file_size

\* A flush that uploads whatever the encoder closed with.
FlushCloseOutcomeMutant(closeOk, num_rows) ==
    IF ~closeOk THEN "Parquet" ELSE "upload"
\* flush_arrow_writer up to its upload: the error of writer.close(), Ok with
\* nothing written for metadata.num_rows == 0, else the upload.
FlushCloseOutcome(closeOk, num_rows) ==
    IF ~closeOk THEN "Parquet"
    ELSE IF num_rows = 0 THEN "discard"
    ELSE "upload"

\* A path made of the part counter as it is.
NextPartCounterMutant(part_counter) == part_counter
\* next_data_path: self.part_counter += 1, and the path of that part.
NextPartCounter(part_counter) == part_counter + 1

\* An Add of files_written, with what the flush that made it started from.
AddFile(part, size, rows, est, by) ==
    [part |-> part, size |-> size, num_rows |-> rows, estimated_size |-> est, by |-> by]

NoWriter ==
    [pc |-> "none", target_file_size |-> 1, write_batch_size |-> 1, part_size |-> 1,
     max_row_group_size |-> 1, size_drift |-> 0,
     buffer |-> 0, in_progress |-> 0, num_rows |-> 0, part_counter |-> 0,
     files_written |-> <<>>, store |-> {}, caller |-> "none", offset |-> 0,
     max_offset |-> 0, flush_buffer |-> 0, flush_rows |-> 0, flush_estimate |-> 0,
     tasks |-> 0, parts |-> <<>>, part_failed |-> FALSE, ret |-> "none", written |-> 0,
     batch_schema_ok |-> TRUE, write_failed |-> FALSE, caller_rows |-> 0,
     accepted_rows |-> 0, file_size |-> 0, lost |-> 0]

\* Where the writer is once the flush it is in returned r: at the return of
\* an error (the caller gives the writer up), at close's return, back in
\* write's loop or at write's return.
AfterFlush(w, r) ==
    IF r # "Ok" THEN [w EXCEPT !.pc = "failed", !.ret = r, !.tasks = 0]
    ELSE IF w.caller = "close" THEN [w EXCEPT !.pc = "closed", !.ret = "Ok"]
    ELSE IF w.offset + w.write_batch_size < w.max_offset
    THEN [w EXCEPT !.pc = "chunk", !.offset = @ + w.write_batch_size]
    ELSE [w EXCEPT !.pc = "open", !.ret = "Ok", !.accepted_rows = @ + w.max_offset]

\* ---------------------------------------------------- post-commit, pure parts
\* post_commit_hook: Option<PostCommitHookProperties>; cleanup_expired_logs
\* is an Option<bool>.
NoHook == [some |-> FALSE, create_checkpoint |-> FALSE, cleanup_expired_logs |-> "None"]
Hooks ==
    {NoHook} \cup
    {[some |-> TRUE, create_checkpoint |-> c, cleanup_expired_logs |-> o] :
        c \in BOOLEAN, o \in {"None", "SomeTrue", "SomeFalse"}}

\* A creation that takes the builder's options along.
PostCommitFieldsMutant(hasTable, hook) ==
    [create_checkpoint |-> hook.some /\ hook.create_checkpoint,
     cleanup_expired_logs |-> IF hook.some THEN hook.cleanup_expired_logs ELSE "None"]
\* The options PreparedCommit::into_future gives the PostCommit it returns:
\* create_checkpoint: false, cleanup_expired_logs: None without a table reference,
\* post_commit.map(|v| v.create_checkpoint).unwrap_or_default() and
\* post_commit.map(|v| v.cleanup_expired_logs).unwrap_or_default() with one.
PostCommitFields(hasTable, hook) ==
    IF ~hasTable
    THEN [create_checkpoint |-> FALSE, cleanup_expired_logs |-> "None"]
    ELSE [create_checkpoint |-> hook.some /\ hook.create_checkpoint,
          cleanup_expired_logs |-> IF hook.some THEN hook.cleanup_expired_logs ELSE "None"]

\* if self.version - snapshot.version() > 1
NeedsUpdate(v, snapshotVersion) == v - snapshotVersion > 1

\* A cleanup that the table config alone can switch on.
CleanupLogsMutant(override, enabled) == override = "SomeTrue" \/ enabled
\* cleanup_logs: the override, or else table_config().enable_expired_log_cleanup()
CleanupLogs(override, enabled) ==
    IF override = "None" THEN enabled ELSE override = "SomeTrue"

\* A flag that tells the handler of the cleanup alone.
HookFlagMutant(cleanupLogs, createCheckpoint) == cleanupLogs
\* The flag both hooks of the handler are given.
HookFlag(cleanupLogs, createCheckpoint) == cleanupLogs \/ createCheckpoint

\* A checkpoint at every version the interval divides.
CheckpointDueMutant(v, interval) == v % interval = 0
\* ((version + 1) % checkpoint_interval) == 0
CheckpointDue(v, interval) == (v + 1) % interval = 0

\* A create_checkpoint that ignores require_files.
CreateCheckpointOutcomeMutant(requireFiles, v, interval) ==
    IF CheckpointDue(v, interval) THEN "create" ELSE "false"
\* PostCommit::create_checkpoint up to its await: Ok(false) without
\* require_files or off the interval, else create_checkpoint_for.
CreateCheckpointOutcome(requireFiles, v, interval) ==
    IF ~requireFiles THEN "false"
    ELSE IF CheckpointDue(v, interval) THEN "create"
    ELSE "false"

\* The state that replaying the log entries 0..k in order gives: the
\* committed data of each version, in order.
Replay(k) == [i \in 1..(k + 1) |-> log[i - 1]]

\* snapshot.advance(vec![&self.data]): the snapshot with the data on top.
AdvanceMutant(snapshot, data) == snapshot
Advance(snapshot, data) == Append(snapshot, data)

\* snapshot.version()
SnapshotVersion(snapshot) == Len(snapshot) - 1

\* The versions cleanup_expired_logs_for(v, ...) may delete: the log files
\* below the newest checkpoint at or below v that are still there.
ExpiredBelow(v) ==
    {w \in Versions : /\ Installed(w)
                      /\ w \notin cleaned
                      /\ \E c \in checkpoints : c <= v /\ w < c}

PostCall(o, f, r) == [op |-> o, flag |-> f, r |-> r]
\* A call of one of the handler's hooks, with the operation id it is given.
HookCall(o, f, id, r) == [op |-> o, flag |-> f, id |-> id, r |-> r]

\* What Uuid::new_v4() can return.
Uuids == {"u1", "u2"}

NoPost ==
    [hook |-> NoHook, create_checkpoint |-> FALSE, cleanup_expired_logs |-> "None",
     handler |-> FALSE, require_files |-> FALSE, checkpoint_interval |-> 1,
     enable_expired_log_cleanup |-> FALSE, snapshot |-> <<>>, cleanup_logs |-> FALSE,
     new_checkpoint_created |-> FALSE, num_log_files_cleaned_up |-> 0, calls |-> <<>>,
     post_commit_operation_id |-> "none"]

Finalized(k, v, n, c, g, s) ==
    [kind |-> k, version |-> v, num_retries |-> n, new_checkpoint_created |-> c,
     num_log_files_cleaned_up |-> g, snapshot |-> s]
NotFinalized == Finalized("none", 0, 0, FALSE, 0, <<>>)

\* ------------------------------------------------------------------ Init
Init ==
    /\ log \in {[v \in Versions |-> None], [v \in Versions |-> IF v = 0 THEN Base ELSE None]}
    /\ tmp = {}
    /\ logStoreName \in LogStoreNames
    /\ external = 0
    /\ pc = [p \in Pipelines |-> "builder"]
    /\ table_data = [p \in Pipelines |-> NoTable]
    /\ actions_valid = [p \in Pipelines |-> TRUE]
    /\ max_retries = [p \in Pipelines |-> DEFAULT_RETRIES]
    /\ commit_or_bytes = [p \in Pipelines |-> "none"]
    /\ read_snapshot = [p \in Pipelines |-> NoTable]
    /\ attempt_number = [p \in Pipelines |-> 0]
    /\ latest_version = [p \in Pipelines |-> 0]
    /\ steps = [p \in Pipelines |-> 0]
    /\ version = [p \in Pipelines |-> 0]
    /\ result = [p \in Pipelines |-> NotReturned]
    /\ ops = [p \in Pipelines |-> <<>>]
    /\ post = [p \in Pipelines |-> NoPost]
    /\ finalized = [p \in Pipelines |-> NotFinalized]
    /\ checkpoints = {}
    /\ cleaned = {}
    /\ commit_data = NoData
    /\ writer = NoWriter
    /\ process = NoProcess

\* --------------------------------------------------------------- actions
\* A writer outside the pipelines installs the next version.
OtherWriter ==
    /\ external < MaxExternal
    /\ LET v == IF \E w \in Versions : Installed(w) THEN GetLatestVersion(0) + 1 ELSE 0
       IN /\ v \in Versions
          /\ log' = [log EXCEPT ![v] = External]
    /\ external' = external + 1
    /\ UNCHANGED <<postvars, commit_data, writer, process, tmp, logStoreName, pc, table_data, actions_valid, max_retries,
                   commit_or_bytes, read_snapshot, attempt_number, latest_version,
                   steps, version, result, ops>>

\* CommitBuilder::build.
Build(p) ==
    /\ pc[p] = "builder"
    /\ \E t \in {NoTable} \cup {v \in Versions : Installed(v)},
          m \in {0, MaxRetriesInput, max_retries[p]},
          valid \in BOOLEAN :
          \* the gate is not called without a table reference
          /\ t = NoTable => valid
          /\ table_data' = [table_data EXCEPT ![p] = t]
          /\ actions_valid' = [actions_valid EXCEPT ![p] = valid]
          /\ max_retries' = [max_retries EXCEPT ![p] = m]
    /\ pc' = [pc EXCEPT ![p] = "precommit"]
    /\ UNCHANGED <<postvars, commit_data, writer, process, shared, commit_or_bytes, read_snapshot, attempt_number,
                   latest_version, steps, version, result, ops>>

\* PreCommit::into_prepared_commit_future, as far as its storage put: the
\* protocol gate, then serialization, then the choice of the payload.
\* ret is the error returned ("" when the stage goes on), put whether
\* store.put was called, staged whether the temp object was written.
\* The gate called after the payload is staged.
PrepareOutcomeMutant(hasTable, gateOk, serOk, conditional, putOk) ==
    IF ~serOk
    THEN [ret |-> "SerializeLogJson", put |-> FALSE, staged |-> FALSE, payload |-> "none"]
    ELSE IF ~conditional /\ ~putOk
    THEN [ret |-> "PutError", put |-> TRUE, staged |-> FALSE, payload |-> "none"]
    ELSE IF hasTable /\ ~gateOk
    THEN [ret |-> "ProtocolGate", put |-> ~conditional, staged |-> ~conditional,
          payload |-> "none"]
    ELSE IF conditional
    THEN [ret |-> "", put |-> FALSE, staged |-> FALSE, payload |-> "LogBytes"]
    ELSE [ret |-> "", put |-> TRUE, staged |-> TRUE, payload |-> "TmpCommit"]

PrepareOutcome(hasTable, gateOk, serOk, conditional, putOk) ==
    IF hasTable /\ ~gateOk
    THEN [ret |-> "ProtocolGate", put |-> FALSE, staged |-> FALSE, payload |-> "none"]
    ELSE IF ~serOk
    THEN [ret |-> "SerializeLogJson", put |-> FALSE, staged |-> FALSE, payload |-> "none"]
    ELSE IF conditional
    THEN [ret |-> "", put |-> FALSE, staged |-> FALSE, payload |-> "LogBytes"]
    ELSE IF putOk
    THEN [ret |-> "", put |-> TRUE, staged |-> TRUE, payload |-> "TmpCommit"]
    ELSE [ret |-> "PutError", put |-> TRUE, staged |-> FALSE, payload |-> "none"]

Prepare(p) ==
    /\ pc[p] = "precommit"
    /\ \E serOk \in BOOLEAN, putOk \in BOOLEAN :
          LET o == PrepareOutcome(table_data[p] # NoTable, actions_valid[p], serOk,
                                  UsesConditionalPut(logStoreName), putOk)
          IN /\ tmp' = IF o.staged THEN tmp \cup {p} ELSE tmp
             /\ ops' = [ops EXCEPT ![p] =
                           IF o.put
                           THEN Append(@, Event("put", 0, 0, IF o.staged THEN "Ok" ELSE "PutError"))
                           ELSE @]
             /\ commit_or_bytes' = [commit_or_bytes EXCEPT ![p] = o.payload]
             /\ IF o.ret = ""
                THEN /\ pc' = [pc EXCEPT ![p] = "prepared"]
                     /\ UNCHANGED result
                ELSE /\ pc' = [pc EXCEPT ![p] = "done"]
                     /\ result' = [result EXCEPT ![p] = Returned(o.ret, 0, 0)]
    /\ UNCHANGED <<postvars, commit_data, writer, process, log, logStoreName, external, table_data, actions_valid, max_retries, read_snapshot,
                   attempt_number, latest_version, steps, version>>

\* A creation that goes through the retry loop from version 0.
FinalizeCreateMutant(p) ==
    /\ pc[p] = "prepared"
    /\ table_data[p] = NoTable
    /\ read_snapshot' = [read_snapshot EXCEPT ![p] = 0]
    /\ attempt_number' = [attempt_number EXCEPT ![p] = 1]
    /\ pc' = [pc EXCEPT ![p] = "get_latest"]
    /\ UNCHANGED <<postvars, commit_data, writer, process, shared, table_data, actions_valid, max_retries, commit_or_bytes,
                   latest_version, steps, version, result, ops>>

\* PreparedCommit::into_future without a table reference: one install at version 0.
FinalizeCreate(p) ==
    /\ pc[p] = "prepared"
    /\ table_data[p] = NoTable
    /\ \E fault \in BOOLEAN :
          LET r == WriteCommitEntry(0, fault)
          IN /\ log' = LogAfterWrite(0, p, r)
             /\ tmp' = TmpAfterWrite(p, commit_or_bytes[p], r)
             /\ ops' = [ops EXCEPT ![p] = Append(@, Event("write_commit_entry", 0, 0, r))]
             /\ IF r = "Ok"
                THEN /\ pc' = [pc EXCEPT ![p] = "postcommit"]
                     /\ result' = [result EXCEPT ![p] = Returned("Ok", 0, 0)]
                ELSE /\ pc' = [pc EXCEPT ![p] = "done"]
                     /\ result' = [result EXCEPT ![p] = Returned(r, 0, 0)]
    /\ version' = [version EXCEPT ![p] = 0]
    /\ UNCHANGED <<postvars, commit_data, writer, process, logStoreName, external, table_data, actions_valid, max_retries, commit_or_bytes,
                   read_snapshot, attempt_number, latest_version, steps>>

\* while attempt_number <= total_retries
LoopGoesOn(attempt, m) == attempt <= TotalRetries(m)

\* PreparedCommit::into_future with a table reference: the private snapshot
\* clone, the loop's counters and the first test of the loop condition.
FinalizeBegin(p) ==
    /\ pc[p] = "prepared"
    /\ table_data[p] # NoTable
    /\ read_snapshot' = [read_snapshot EXCEPT ![p] = table_data[p]]
    /\ attempt_number' = [attempt_number EXCEPT ![p] = 1]
    /\ IF LoopGoesOn(1, max_retries[p])
       THEN /\ pc' = [pc EXCEPT ![p] = "get_latest"]
            /\ UNCHANGED result
       ELSE /\ pc' = [pc EXCEPT ![p] = "done"]
            /\ result' = [result EXCEPT ![p] =
                             Returned("MaxCommitAttempts", max_retries[p], 0)]
    /\ UNCHANGED <<postvars, commit_data, writer, process, shared, table_data, actions_valid, max_retries, commit_or_bytes,
                   latest_version, steps, version, ops>>

\* A loop that runs the checker whatever max_retries is.
ThrowsImmediatelyMutant(m) == FALSE
\* "If max_retries are set to 0, do not try to use the conflict checker"
ThrowsImmediately(m) == m = 0

\* The loop head of an attempt: get_latest_version, then the branch on its answer.
GetLatest(p) ==
    /\ pc[p] = "get_latest"
    /\ \E ok \in BOOLEAN :
          IF ~ok
          THEN /\ ops' = [ops EXCEPT ![p] =
                             Append(@, Event("get_latest_version", read_snapshot[p], 0, "LatestError"))]
               /\ pc' = [pc EXCEPT ![p] = "done"]
               /\ result' = [result EXCEPT ![p] = Returned("LatestError", 0, 0)]
               /\ UNCHANGED <<latest_version, steps>>
          ELSE LET latest == GetLatestVersion(read_snapshot[p])
               IN /\ ops' = [ops EXCEPT ![p] =
                                Append(@, Event("get_latest_version", read_snapshot[p], latest, "Ok"))]
                  /\ latest_version' = [latest_version EXCEPT ![p] = latest]
                  /\ IF latest > read_snapshot[p]
                     THEN IF ThrowsImmediately(max_retries[p])
                          THEN /\ pc' = [pc EXCEPT ![p] = "done"]
                               /\ result' = [result EXCEPT ![p] =
                                                Returned("MaxCommitAttempts", max_retries[p], 0)]
                               /\ UNCHANGED steps
                          ELSE /\ steps' = [steps EXCEPT ![p] = latest - read_snapshot[p]]
                               /\ pc' = [pc EXCEPT ![p] = "check"]
                               /\ UNCHANGED result
                     ELSE /\ pc' = [pc EXCEPT ![p] = "write"]
                          /\ UNCHANGED <<steps, result>>
    /\ UNCHANGED <<postvars, commit_data, writer, process, shared, table_data, actions_valid, max_retries, commit_or_bytes, read_snapshot,
                   attempt_number, version>>

\* One turn of the conflict loop: read the winning commit, run the checker.
CheckConflicts(p) ==
    /\ pc[p] = "check"
    /\ LET v == CheckedVersion(latest_version[p], steps[p])
       IN \E readOk \in BOOLEAN, passes \in BOOLEAN :
             IF ~readOk
             THEN /\ ops' = [ops EXCEPT ![p] = Append(@, Event("read_commit_entry", v, 0, "ReadError"))]
                  /\ pc' = [pc EXCEPT ![p] = "done"]
                  /\ result' = [result EXCEPT ![p] = Returned("ReadError", 0, 0)]
                  /\ UNCHANGED steps
             ELSE IF ~passes
             THEN /\ ops' = [ops EXCEPT ![p] = Append(@, Event("check_conflicts", v, 0, "CommitConflict"))]
                  /\ pc' = [pc EXCEPT ![p] = "done"]
                  /\ result' = [result EXCEPT ![p] = Returned("CommitConflict", 0, 0)]
                  /\ UNCHANGED steps
             ELSE /\ ops' = [ops EXCEPT ![p] = Append(@, Event("check_conflicts", v, 0, "Ok"))]
                  /\ steps' = [steps EXCEPT ![p] = @ - 1]
                  /\ pc' = [pc EXCEPT ![p] = IF steps[p] - 1 # 0 THEN "check" ELSE "update"]
                  /\ UNCHANGED result
    /\ UNCHANGED <<postvars, commit_data, writer, process, shared, table_data, actions_valid, max_retries, commit_or_bytes, read_snapshot,
                   attempt_number, latest_version, version>>

\* An update that leaves the snapshot where it was.
UpdateSnapshotStaleMutant(p) ==
    /\ pc[p] = "update"
    /\ \E ok \in BOOLEAN :
          IF ok
          THEN /\ ops' = [ops EXCEPT ![p] = Append(@, Event("update", latest_version[p], 0, "Ok"))]
               /\ pc' = [pc EXCEPT ![p] = "write"]
               /\ UNCHANGED result
          ELSE /\ ops' = [ops EXCEPT ![p] = Append(@, Event("update", latest_version[p], 0, "UpdateError"))]
               /\ pc' = [pc EXCEPT ![p] = "done"]
               /\ result' = [result EXCEPT ![p] = Returned("UpdateError", 0, 0)]
    /\ UNCHANGED <<postvars, commit_data, writer, process, shared, table_data, actions_valid, max_retries, commit_or_bytes,
                   read_snapshot, attempt_number, latest_version, steps, version>>
\* An update made through the caller's table reference, not on a clone.
UpdateSnapshotInPlaceMutant(p) ==
    /\ pc[p] = "update"
    /\ \E ok \in BOOLEAN :
          IF ok
          THEN /\ ops' = [ops EXCEPT ![p] = Append(@, Event("update", latest_version[p], 0, "Ok"))]
               /\ read_snapshot' = [read_snapshot EXCEPT ![p] = latest_version[p]]
               /\ table_data' = [table_data EXCEPT ![p] = latest_version[p]]
               /\ pc' = [pc EXCEPT ![p] = "write"]
               /\ UNCHANGED result
          ELSE /\ ops' = [ops EXCEPT ![p] = Append(@, Event("update", latest_version[p], 0, "UpdateError"))]
               /\ pc' = [pc EXCEPT ![p] = "done"]
               /\ result' = [result EXCEPT ![p] = Returned("UpdateError", 0, 0)]
               /\ UNCHANGED <<read_snapshot, table_data>>
    /\ UNCHANGED <<postvars, commit_data, writer, process, shared, actions_valid, max_retries, commit_or_bytes, attempt_number,
                   latest_version, steps, version>>
\* read_snapshot.update(log_store, Some(latest_version)).
UpdateSnapshot(p) ==
    /\ pc[p] = "update"
    /\ \E ok \in BOOLEAN :
          IF ok
          THEN /\ ops' = [ops EXCEPT ![p] = Append(@, Event("update", latest_version[p], 0, "Ok"))]
               /\ read_snapshot' = [read_snapshot EXCEPT ![p] = latest_version[p]]
               /\ pc' = [pc EXCEPT ![p] = "write"]
               /\ UNCHANGED result
          ELSE /\ ops' = [ops EXCEPT ![p] = Append(@, Event("update", latest_version[p], 0, "UpdateError"))]
               /\ pc' = [pc EXCEPT ![p] = "done"]
               /\ result' = [result EXCEPT ![p] = Returned("UpdateError", 0, 0)]
               /\ UNCHANGED read_snapshot
    /\ UNCHANGED <<postvars, commit_data, writer, process, shared, table_data, actions_valid, max_retries, commit_or_bytes, attempt_number,
                   latest_version, steps, version>>

\* A loop whose exit returns the last VersionAlreadyExists.
AfterVersionAlreadyExistsMutant(attempt, m) ==
    IF attempt + 1 <= m + 1
    THEN [attempt |-> attempt + 1, pc |-> "get_latest", ret |-> "none"]
    ELSE [attempt |-> attempt + 1, pc |-> "done", ret |-> "VersionAlreadyExists"]
\* A retry that is not counted.
AfterVersionAlreadyExistsUncountedMutant(attempt, m) ==
    [attempt |-> attempt, pc |-> "get_latest", ret |-> "none"]
\* A retry that goes back to prepare and stages the payload anew.
AfterVersionAlreadyExistsRestageMutant(attempt, m) ==
    IF attempt + 1 <= m + 1
    THEN [attempt |-> attempt + 1, pc |-> "precommit", ret |-> "none"]
    ELSE [attempt |-> attempt + 1, pc |-> "done", ret |-> "MaxCommitAttempts"]
\* What follows a VersionAlreadyExists: the next attempt, or the loop's exit.
AfterVersionAlreadyExists(attempt, m) ==
    IF LoopGoesOn(attempt + 1, m)
    THEN [attempt |-> attempt + 1, pc |-> "get_latest", ret |-> "none"]
    ELSE [attempt |-> attempt + 1, pc |-> "done", ret |-> "MaxCommitAttempts"]

\* The install of an attempt: write_commit_entry(latest_version + 1).
WriteCommit(p) ==
    /\ pc[p] = "write"
    /\ LET v == NextVersion(latest_version[p])
       IN \E fault \in BOOLEAN :
             LET r == WriteCommitEntry(v, fault)
                 a == AfterVersionAlreadyExists(attempt_number[p], max_retries[p])
             IN /\ version' = [version EXCEPT ![p] = v]
                /\ log' = LogAfterWrite(v, p, r)
                /\ tmp' = TmpAfterWrite(p, commit_or_bytes[p], r)
                /\ ops' = [ops EXCEPT ![p] = Append(@, Event("write_commit_entry", v, 0, r))]
                /\ CASE r = "Ok" ->
                          /\ pc' = [pc EXCEPT ![p] = "postcommit"]
                          /\ result' = [result EXCEPT ![p] =
                                           Returned("Ok", v, NumRetries(attempt_number[p]))]
                          /\ UNCHANGED attempt_number
                     [] r = "VersionAlreadyExists" ->
                          /\ attempt_number' = [attempt_number EXCEPT ![p] = a.attempt]
                          /\ pc' = [pc EXCEPT ![p] = a.pc]
                          /\ result' = [result EXCEPT ![p] =
                                           IF a.ret = "none" THEN @
                                           ELSE Returned(a.ret, max_retries[p], 0)]
                     [] OTHER ->
                          /\ pc' = [pc EXCEPT ![p] = "abort"]
                          /\ UNCHANGED <<attempt_number, result>>
    /\ UNCHANGED <<postvars, commit_data, writer, process, logStoreName, external, table_data, actions_valid, max_retries, commit_or_bytes,
                   read_snapshot, latest_version, steps>>

\* abort_commit_entry after a failed install, then the return of an error.
AbortCommit(p) ==
    /\ pc[p] = "abort"
    /\ \E ok \in BOOLEAN :
          /\ tmp' = TmpAfterAbort(p, commit_or_bytes[p], ok)
          /\ ops' = [ops EXCEPT ![p] =
                        Append(@, Event("abort_commit_entry", version[p], 0,
                                        IF ok THEN "Ok" ELSE "AbortError"))]
          /\ result' = [result EXCEPT ![p] =
                           Returned(IF ok THEN "InstallError" ELSE "AbortError", 0, 0)]
    /\ pc' = [pc EXCEPT ![p] = "done"]
    /\ UNCHANGED <<postvars, commit_data, writer, process, log, logStoreName, external, table_data, actions_valid, max_retries, commit_or_bytes,
                   read_snapshot, attempt_number, latest_version, steps, version>>

Step(p) ==
    \/ Build(p)
    \/ Prepare(p)
    \/ FinalizeCreate(p)
    \/ FinalizeBegin(p)
    \/ GetLatest(p)
    \/ CheckConflicts(p)
    \/ UpdateSnapshot(p)
    \/ WriteCommit(p)
    \/ AbortCommit(p)

Next ==
    \/ OtherWriter
    \/ \E p \in Pipelines : Step(p)

Spec == Init /\ [][Next]_vars

\* Every pipeline that can take a step eventually takes one; outside writers
\* need not act.
FairSpec == Spec /\ \A p \in Pipelines : WF_vars(Step(p))

\* ------------------------------------------------------------ cancellation
\* The positions at which a pipeline's future is suspended on an await, or
\* waits to be polled; at "postcommit" the install has taken effect and the
\* future has not gone on from it.
SuspensionPoints ==
    {"precommit", "prepared", "get_latest", "check", "update", "write", "abort", "postcommit"}

\* The caller drops the pipeline's future at a suspension point: its locals
\* are gone and no later call of it reaches storage.  A call in flight either
\* took effect before the drop, which is the call's step followed by the
\* drop, or not at all.  What is kept of the history is the log's latest
\* version at the drop.
Cancel(p) ==
    /\ pc[p] \in SuspensionPoints
    /\ pc' = [pc EXCEPT ![p] = "dropped"]
    /\ ops' = [ops EXCEPT ![p] =
                  <<Event("dropped",
                          IF \E v \in Versions : Installed(v) THEN GetLatestVersion(0) ELSE NoTable,
                          0, "dropped")>>]
    /\ read_snapshot' = [read_snapshot EXCEPT ![p] = NoTable]
    /\ attempt_number' = [attempt_number EXCEPT ![p] = 0]
    /\ latest_version' = [latest_version EXCEPT ![p] = 0]
    /\ steps' = [steps EXCEPT ![p] = 0]
    /\ version' = [version EXCEPT ![p] = 0]
    /\ result' = [result EXCEPT ![p] = NotReturned]
    /\ UNCHANGED <<postvars, commit_data, writer, process, shared, table_data, actions_valid, max_retries, commit_or_bytes>>

\* The pipelines with callers that may drop them.
CancelNext ==
    \/ Next
    \/ \E p \in Pipelines : Cancel(p)

CancelSpec == Init /\ [][CancelNext]_vars

\* ------------------------------------------------------ post-commit stage
\* PostCommit::into_future, the future the caller awaits on the PostCommit a
\* finalize returned.  PostInit holds every PostCommit a finalize can return
\* (PostCommitShape, an invariant of Spec, says no other is returned); the calls of the
\* earlier stages are not carried into it.
PostInit ==
    \E p \in Pipelines, k \in 0..MaxPostVersion,
       t \in {NoTable} \cup (0..(MaxPostVersion - 1)), n \in 0..MaxRetriesInput,
       hook \in Hooks, handler \in BOOLEAN, requireFiles \in BOOLEAN,
       enabled \in BOOLEAN, interval \in 1..MaxCheckpointInterval :
        LET f == PostCommitFields(t # NoTable, hook)
        IN /\ t = NoTable => k = 0 /\ n = 0
           /\ t # NoTable => t < k /\ n <= (k - 1) - t
           /\ log = [v \in Versions |->
                        IF v = k THEN p
                        ELSE IF v > k THEN None
                        ELSE IF v = 0 THEN Base ELSE External]
           /\ external = IF k >= 1 THEN k - 1 ELSE 0
           /\ tmp = {}
           /\ logStoreName \in LogStoreNames
           /\ pc = [q \in Pipelines |-> IF q = p THEN "postcommit" ELSE "builder"]
           /\ table_data = [q \in Pipelines |-> IF q = p THEN t ELSE NoTable]
           /\ actions_valid = [q \in Pipelines |-> TRUE]
           /\ max_retries = [q \in Pipelines |-> DEFAULT_RETRIES]
           /\ commit_or_bytes =
                 [q \in Pipelines |->
                    IF q # p THEN "none"
                    ELSE IF UsesConditionalPut(logStoreName) THEN "LogBytes" ELSE "TmpCommit"]
           /\ read_snapshot = [q \in Pipelines |-> IF q = p /\ t # NoTable THEN k - 1 ELSE NoTable]
           /\ attempt_number = [q \in Pipelines |-> IF q = p /\ t # NoTable THEN n + 1 ELSE 0]
           /\ latest_version = [q \in Pipelines |-> IF q = p /\ t # NoTable THEN k - 1 ELSE 0]
           /\ steps = [q \in Pipelines |-> 0]
           /\ version = [q \in Pipelines |-> IF q = p THEN k ELSE 0]
           /\ result = [q \in Pipelines |-> IF q = p THEN Returned("Ok", k, n) ELSE NotReturned]
           /\ ops = [q \in Pipelines |-> <<>>]
           /\ post = [q \in Pipelines |->
                        IF q # p THEN NoPost
                        ELSE [NoPost EXCEPT !.hook = hook,
                                            !.create_checkpoint = f.create_checkpoint,
                                            !.cleanup_expired_logs = f.cleanup_expired_logs,
                                            !.handler = handler,
                                            !.require_files = requireFiles,
                                            !.enable_expired_log_cleanup = enabled,
                                            !.checkpoint_interval = interval]]
           /\ finalized = [q \in Pipelines |-> NotFinalized]
           /\ checkpoints = {}
           /\ cleaned = {}
           /\ commit_data = NoData
           /\ writer = NoWriter
           /\ process = NoProcess

\* What no step of the post-commit stage writes.
prevars == <<log, tmp, logStoreName, external, table_data, actions_valid, max_retries,
             commit_or_bytes, read_snapshot, attempt_number, latest_version, steps,
             version, result, ops, commit_data, writer, process>>

\* A creation path that tells the handler once the state is loaded.
PostCreateMutant(p) ==
    /\ pc[p] = "postcommit"
    /\ table_data[p] = NoTable
    /\ \E ok \in BOOLEAN, id \in Uuids :
          LET loaded == Append(post[p].calls,
                               PostCall("try_new", FALSE, IF ok THEN "Ok" ELSE "TryNewError"))
          IN /\ post' = [post EXCEPT
                            ![p].calls =
                                IF ok /\ post[p].handler
                                THEN Append(loaded, HookCall("after_post_commit_hook",
                                                             FALSE, id, "Ok"))
                                ELSE loaded,
                            ![p].snapshot = IF ok THEN Replay(version[p]) ELSE @]
             /\ finalized' = [finalized EXCEPT ![p] =
                                 IF ok
                                 THEN Finalized("Ok", version[p], result[p].num_retries, FALSE, 0,
                                                Replay(version[p]))
                                 ELSE Finalized("TryNewError", 0, 0, FALSE, 0, <<>>)]
    /\ pc' = [pc EXCEPT ![p] = "returned"]
    /\ UNCHANGED <<prevars, checkpoints, cleaned>>

\* run_post_commit_hook without a table reference: the state is loaded from
\* storage at the committed version; no hook, no checkpoint, no cleanup.
PostCreate(p) ==
    /\ pc[p] = "postcommit"
    /\ table_data[p] = NoTable
    /\ \E ok \in BOOLEAN :
          /\ post' = [post EXCEPT ![p].calls =
                          Append(@, PostCall("try_new", FALSE, IF ok THEN "Ok" ELSE "TryNewError")),
                                   ![p].snapshot = IF ok THEN Replay(version[p]) ELSE @]
          /\ finalized' = [finalized EXCEPT ![p] =
                              IF ok
                              THEN Finalized("Ok", version[p], result[p].num_retries, FALSE, 0,
                                             Replay(version[p]))
                              ELSE Finalized("TryNewError", 0, 0, FALSE, 0, <<>>)]
    /\ pc' = [pc EXCEPT ![p] = "returned"]
    /\ UNCHANGED <<prevars, checkpoints, cleaned>>

\* An advance only on the branch that updates first.
PostCommitSnapshotMutant(needs, base, updated, data) ==
    IF needs THEN Advance(updated, data) ELSE base
\* The snapshot run_post_commit_hook goes on with: the clone, updated to
\* version - 1 first where it is further behind, advanced by the committed data.
PostCommitSnapshot(needs, base, updated, data) ==
    IF needs THEN Advance(updated, data) ELSE Advance(base, data)

\* run_post_commit_hook with a table reference, up to its first hook: the
\* fresh post_commit_operation_id, the clone of the snapshot finalize handed
\* over, the update to version - 1 where the clone is further behind, the
\* advance by the committed data, and the choice of cleanup_logs.
PostSnapshot(p) ==
    /\ pc[p] = "postcommit"
    /\ table_data[p] # NoTable
    /\ \E updateOk \in BOOLEAN, advanceOk \in BOOLEAN, id \in Uuids :
          LET base == Replay(read_snapshot[p])
              needs == NeedsUpdate(version[p], SnapshotVersion(base))
              updated == IF needs THEN Replay(version[p] - 1) ELSE base
              calls1 == IF needs
                        THEN Append(post[p].calls,
                                    PostCall("update", FALSE,
                                             IF updateOk THEN "Ok" ELSE "UpdateError"))
                        ELSE post[p].calls
              calls2 == Append(calls1, PostCall("advance", FALSE,
                                                IF advanceOk THEN "Ok" ELSE "AdvanceError"))
          IN IF needs /\ ~updateOk
             THEN /\ post' = [post EXCEPT ![p].calls = calls1,
                                              ![p].post_commit_operation_id = id]
                  /\ finalized' = [finalized EXCEPT ![p] =
                                      Finalized("UpdateError", 0, 0, FALSE, 0, <<>>)]
                  /\ pc' = [pc EXCEPT ![p] = "returned"]
             ELSE IF ~advanceOk
             THEN /\ post' = [post EXCEPT ![p].calls = calls2,
                                              ![p].post_commit_operation_id = id]
                  /\ finalized' = [finalized EXCEPT ![p] =
                                      Finalized("AdvanceError", 0, 0, FALSE, 0, <<>>)]
                  /\ pc' = [pc EXCEPT ![p] = "returned"]
             ELSE /\ post' = [post EXCEPT
                                 ![p].calls = calls2,
                                 ![p].post_commit_operation_id = id,
                                 ![p].snapshot = PostCommitSnapshot(needs, base, updated, p),
                                 ![p].cleanup_logs =
                                     CleanupLogs(post[p].cleanup_expired_logs,
                                                 post[p].enable_expired_log_cleanup)]
                  /\ pc' = [pc EXCEPT ![p] = "before_hook"]
                  /\ UNCHANGED finalized
    /\ UNCHANGED <<prevars, checkpoints, cleaned>>

\* before_post_commit_hook, where a handler is set.
PostBeforeHook(p) ==
    /\ pc[p] = "before_hook"
    /\ IF ~post[p].handler
       THEN /\ pc' = [pc EXCEPT ![p] = "checkpoint"]
            /\ UNCHANGED <<post, finalized>>
       ELSE \E ok \in BOOLEAN :
               /\ post' = [post EXCEPT ![p].calls =
                               Append(@, HookCall("before_post_commit_hook",
                                                  HookFlag(post[p].cleanup_logs,
                                                           post[p].create_checkpoint),
                                                  post[p].post_commit_operation_id,
                                                  IF ok THEN "Ok" ELSE "BeforeHookError"))]
               /\ IF ok
                  THEN /\ pc' = [pc EXCEPT ![p] = "checkpoint"]
                       /\ UNCHANGED finalized
                  ELSE /\ pc' = [pc EXCEPT ![p] = "returned"]
                       /\ finalized' = [finalized EXCEPT ![p] =
                                           Finalized("BeforeHookError", 0, 0, FALSE, 0, <<>>)]
    /\ UNCHANGED <<prevars, checkpoints, cleaned>>

\* if self.create_checkpoint { self.create_checkpoint(...).await? }
PostCheckpoint(p) ==
    /\ pc[p] = "checkpoint"
    /\ IF ~post[p].create_checkpoint
          \/ CreateCheckpointOutcome(post[p].require_files, version[p],
                                     post[p].checkpoint_interval) = "false"
       THEN /\ pc' = [pc EXCEPT ![p] = "cleanup"]
            /\ UNCHANGED <<post, finalized, checkpoints>>
       ELSE \E ok \in BOOLEAN :
               /\ post' = [post EXCEPT
                              ![p].calls = Append(@, PostCall("create_checkpoint_for", FALSE,
                                                              IF ok THEN "Ok" ELSE "CheckpointError")),
                              ![p].new_checkpoint_created = ok]
               /\ IF ok
                  THEN /\ checkpoints' = checkpoints \cup {version[p]}
                       /\ pc' = [pc EXCEPT ![p] = "cleanup"]
                       /\ UNCHANGED finalized
                  ELSE /\ pc' = [pc EXCEPT ![p] = "returned"]
                       /\ finalized' = [finalized EXCEPT ![p] =
                                           Finalized("CheckpointError", 0, 0, FALSE, 0, <<>>)]
                       /\ UNCHANGED checkpoints
    /\ UNCHANGED <<prevars, cleaned>>

\* if cleanup_logs { cleanup_expired_logs_for(self.version, ...).await? }: the
\* cleanup deletes the expired log files, all of them or none, and returns
\* their number.
PostCleanup(p) ==
    /\ pc[p] = "cleanup"
    /\ IF ~post[p].cleanup_logs
       THEN /\ pc' = [pc EXCEPT ![p] = "after_hook"]
            /\ UNCHANGED <<post, finalized, cleaned>>
       ELSE \E ok \in BOOLEAN, deleted \in {{}, ExpiredBelow(version[p])} :
               IF ok
               THEN /\ cleaned' = cleaned \cup deleted
                    /\ post' = [post EXCEPT
                                   ![p].calls = Append(@, PostCall("cleanup_expired_logs_for",
                                                                   FALSE, "Ok")),
                                   ![p].num_log_files_cleaned_up = Cardinality(deleted)]
                    /\ pc' = [pc EXCEPT ![p] = IF Cardinality(deleted) > 0
                                               THEN "rematerialize" ELSE "after_hook"]
                    /\ UNCHANGED finalized
               ELSE /\ post' = [post EXCEPT
                                   ![p].calls = Append(@, PostCall("cleanup_expired_logs_for",
                                                                   FALSE, "CleanupError"))]
                    /\ pc' = [pc EXCEPT ![p] = "returned"]
                    /\ finalized' = [finalized EXCEPT ![p] =
                                        Finalized("CleanupError", 0, 0, FALSE, 0, <<>>)]
                    /\ UNCHANGED cleaned
    /\ UNCHANGED <<prevars, checkpoints>>

\* if num_log_files_cleaned_up > 0 { state = DeltaTableState::try_new(..., Some(self.version)).await? }
PostRematerialize(p) ==
    /\ pc[p] = "rematerialize"
    /\ \E ok \in BOOLEAN :
          /\ post' = [post EXCEPT
                         ![p].calls = Append(@, PostCall("try_new", FALSE,
                                                         IF ok THEN "Ok" ELSE "TryNewError")),
                         ![p].snapshot = IF ok THEN Replay(version[p]) ELSE @]
          /\ IF ok
             THEN /\ pc' = [pc EXCEPT ![p] = "after_hook"]
                  /\ UNCHANGED finalized
             ELSE /\ pc' = [pc EXCEPT ![p] = "returned"]
                  /\ finalized' = [finalized EXCEPT ![p] =
                                      Finalized("TryNewError", 0, 0, FALSE, 0, <<>>)]
    /\ UNCHANGED <<prevars, checkpoints, cleaned>>

\* The FinalizedCommit PostCommit::into_future makes of what the hook returned.
FinalizedCommit(p) ==
    Finalized("Ok", version[p], result[p].num_retries, post[p].new_checkpoint_created,
              post[p].num_log_files_cleaned_up, post[p].snapshot)

\* A post-commit stage that returns its FinalizedCommit whatever the after
\* hook returned.
PostAfterHookMutant(p) ==
    /\ pc[p] = "after_hook"
    /\ pc' = [pc EXCEPT ![p] = "returned"]
    /\ finalized' = [finalized EXCEPT ![p] = FinalizedCommit(p)]
    /\ IF ~post[p].handler
       THEN UNCHANGED post
       ELSE \E ok \in BOOLEAN :
               post' = [post EXCEPT ![p].calls =
                           Append(@, HookCall("after_post_commit_hook",
                                              HookFlag(post[p].cleanup_logs,
                                                       post[p].create_checkpoint),
                                              post[p].post_commit_operation_id,
                                              IF ok THEN "Ok" ELSE "AfterHookError"))]
    /\ UNCHANGED <<prevars, checkpoints, cleaned>>

\* after_post_commit_hook, where a handler is set, and the return of
\* run_post_commit_hook to PostCommit::into_future.
PostAfterHook(p) ==
    /\ pc[p] = "after_hook"
    /\ pc' = [pc EXCEPT ![p] = "returned"]
    /\ IF ~post[p].handler
       THEN /\ finalized' = [finalized EXCEPT ![p] = FinalizedCommit(p)]
            /\ UNCHANGED post
       ELSE \E ok \in BOOLEAN :
               /\ post' = [post EXCEPT ![p].calls =
                               Append(@, HookCall("after_post_commit_hook",
                                                  HookFlag(post[p].cleanup_logs,
                                                           post[p].create_checkpoint),
                                                  post[p].post_commit_operation_id,
                                                  IF ok THEN "Ok" ELSE "AfterHookError"))]
               /\ finalized' = [finalized EXCEPT ![p] =
                                   IF ok THEN FinalizedCommit(p)
                                   ELSE Finalized("AfterHookError", 0, 0, FALSE, 0, <<>>)]
    /\ UNCHANGED <<prevars, checkpoints, cleaned>>

PostStep(p) ==
    \/ PostCreate(p)
    \/ PostSnapshot(p)
    \/ PostBeforeHook(p)
    \/ PostCheckpoint(p)
    \/ PostCleanup(p)
    \/ PostRematerialize(p)
    \/ PostAfterHook(p)

\* The post-commit stage of a pipeline, with the outside writers going on.
PostNext ==
    \/ OtherWriter
    \/ \E p \in Pipelines : PostStep(p)

PostSpec == PostInit /\ [][PostNext]_vars

\* -------------------------------------------------------- PartitionWriter
\* No pipeline under way on an empty log.
NoCommit ==
    /\ log = [v \in Versions |-> None]
    /\ tmp = {}
    /\ logStoreName = "DefaultLogStore"
    /\ external = 0
    /\ pc = [p \in Pipelines |-> "builder"]
    /\ table_data = [p \in Pipelines |-> NoTable]
    /\ actions_valid = [p \in Pipelines |-> TRUE]
    /\ max_retries = [p \in Pipelines |-> DEFAULT_RETRIES]
    /\ commit_or_bytes = [p \in Pipelines |-> "none"]
    /\ read_snapshot = [p \in Pipelines |-> NoTable]
    /\ attempt_number = [p \in Pipelines |-> 0]
    /\ latest_version = [p \in Pipelines |-> 0]
    /\ steps = [p \in Pipelines |-> 0]
    /\ version = [p \in Pipelines |-> 0]
    /\ result = [p \in Pipelines |-> NotReturned]
    /\ ops = [p \in Pipelines |-> <<>>]
    /\ post = [p \in Pipelines |-> NoPost]
    /\ finalized = [p \in Pipelines |-> NotFinalized]
    /\ checkpoints = {}
    /\ cleaned = {}
    /\ commit_data = NoData

\* The variables of the commit pipelines and of CommitData.
commitvars == <<postvars, shared, pc, table_data, actions_valid, max_retries, commit_or_bytes,
                read_snapshot, attempt_number, latest_version, steps, version, result, ops,
                commit_data>>

\* What the partition writer does not write.
nowriter == <<commitvars, process>>

\* PartitionWriter::try_with_config: a fresh encoder on an empty buffer, no
\* file written, for a config and the process's upload part size.
NewWriters(rows) ==
    {[NoWriter EXCEPT !.pc = "open", !.target_file_size = t,
                      !.write_batch_size = b, !.part_size = s,
                      !.max_row_group_size = g, !.size_drift = d, !.caller_rows = rows] :
        t \in TargetFileSizes, b \in 1..MaxWriteBatchSize,
        s \in 1..MaxPartSize, g \in RowGroupSizes, d \in SizeDrifts}

\* A caller with up to MaxRows rows to write.
WriterInit ==
    /\ writer \in NewWriters(MaxRows)
    /\ process = NoProcess
    /\ NoCommit

\* PartitionWriter::write(batch), up to its loop.
WriterWrite ==
    /\ writer.pc = "open"
    /\ \E n \in 0..(writer.caller_rows - writer.written), schemaOk \in BOOLEAN :
          LET o == WriteEntry(schemaOk, n)
          IN writer' = IF o = "chunks"
                       THEN [writer EXCEPT !.pc = "chunk", !.caller = "write", !.offset = 0,
                                           !.max_offset = n, !.ret = "pending",
                                           !.batch_schema_ok = schemaOk]
                       ELSE [writer EXCEPT !.caller = "write", !.ret = o,
                                           !.batch_schema_ok = schemaOk]
    /\ UNCHANGED nowriter

\* One turn of write's loop: write_batch of the chunk at offset, then the
\* estimate and the test for a flush.  The encoder takes the rows into its
\* row group in progress and writes the group out into the buffer once it
\* holds max_row_group_size rows.
WriteBatch ==
    /\ writer.pc = "chunk"
    /\ LET length == ChunkLength(writer.write_batch_size, writer.max_offset, writer.offset)
           x == writer.in_progress + length
           full == x >= writer.max_row_group_size
       IN \E ok \in BOOLEAN :
             IF ~ok
             THEN writer' = [writer EXCEPT !.pc = "failed", !.ret = "Arrow"]
             ELSE LET w == [writer EXCEPT !.num_rows = @ + length,
                                          !.written = @ + length,
                                          !.buffer = IF full THEN @ + x ELSE @,
                                          !.in_progress = IF full THEN 0 ELSE x]
                  IN writer' = IF ShouldFlush(w.buffer, w.in_progress, w.target_file_size)
                               THEN [w EXCEPT !.pc = "flush"]
                               ELSE AfterFlush(w, "Ok")
    /\ UNCHANGED nowriter

\* PartitionWriter::close: the flush of what is left.
WriterClose ==
    /\ writer.pc = "open"
    /\ writer' = [writer EXCEPT !.pc = "flush", !.caller = "close", !.ret = "pending"]
    /\ UNCHANGED nowriter

\* flush_arrow_writer up to put_multipart: the fresh encoder and buffer are
\* swapped in, the old encoder is closed, and a file without rows is
\* dropped; else the old buffer is taken and the file gets the next path.
\* (buffer.into_inner() gives the bytes: the closed encoder held the only
\* other handle on the buffer.)
FlushClose ==
    /\ writer.pc = "flush"
    /\ \E closeOk \in BOOLEAN :
          LET o == FlushCloseOutcome(closeOk, writer.num_rows)
              est == writer.buffer + writer.in_progress
              w == [writer EXCEPT !.buffer = 0, !.in_progress = 0, !.num_rows = 0,
                                  !.flush_rows = writer.num_rows,
                                  !.flush_estimate = est,
                                  !.flush_buffer = 0, !.tasks = 0, !.parts = <<>>,
                                  !.part_failed = FALSE, !.file_size = 0, !.lost = 0]
          IN writer' = CASE o = "upload" ->
                                [w EXCEPT !.pc = "put_multipart",
                                          !.flush_buffer = EncodedSize(est, writer.size_drift),
                                          !.file_size = EncodedSize(est, writer.size_drift),
                                          !.part_counter = NextPartCounter(@)]
                         [] o = "discard" -> AfterFlush(w, "Ok")
                         [] OTHER -> AfterFlush(w, o)
    /\ UNCHANGED nowriter

\* self.object_store.put_multipart(&path)
PutMultipart ==
    /\ writer.pc = "put_multipart"
    /\ \E ok \in BOOLEAN :
          writer' = IF ok THEN [writer EXCEPT !.pc = "upload"]
                    ELSE AfterFlush(writer, "ObjectStore")
    /\ UNCHANGED nowriter

\* A loop that looks at what the task joined for a free slot returned, and
\* returns its error.
JoinForSlotMutant(w, joinedOk) ==
    IF w.tasks >= max_concurrent_tasks
    THEN IF joinedOk THEN [w EXCEPT !.tasks = @ - 1]
         ELSE [w EXCEPT !.pc = "failed", !.ret = "PartUpload", !.tasks = 0]
    ELSE w
\* if tasks.len() >= max_concurrent_tasks { tasks.join_next().await; }: the
\* joined task leaves the set and what it returned is dropped; part_failed
\* and lost remember that a part of this file failed to upload, and its bytes
\* (a full part: the rest of the buffer is spawned after the loop).
JoinForSlot(w, joinedOk) ==
    IF w.tasks >= max_concurrent_tasks
    THEN [w EXCEPT !.tasks = @ - 1, !.part_failed = @ \/ ~joinedOk,
                   !.lost = IF joinedOk THEN @ ELSE @ + w.part_size]
    ELSE w

\* One turn of `while buffer.len() > part_size`: the part is split off, a
\* task is joined first where max_concurrent_tasks are in the set, and the
\* part's upload is spawned.
UploadPart ==
    /\ writer.pc = "upload"
    /\ writer.flush_buffer > writer.part_size
    /\ \E joinedOk \in BOOLEAN :
          LET w == JoinForSlot(writer, joinedOk)
          IN writer' = IF w.pc # "upload" THEN w
                       ELSE [w EXCEPT !.flush_buffer = @ - writer.part_size,
                                      !.parts = Append(@, writer.part_size),
                                      !.tasks = @ + 1]
    /\ UNCHANGED nowriter

\* A flush that leaves what the loop left of the buffer.
UploadRestMutant ==
    /\ writer.pc = "upload"
    /\ writer.flush_buffer <= writer.part_size
    /\ writer' = [writer EXCEPT !.pc = "join"]
    /\ UNCHANGED nowriter

\* After the loop: the upload of what is left of the buffer is spawned.
UploadRest ==
    /\ writer.pc = "upload"
    /\ writer.flush_buffer <= writer.part_size
    /\ writer' = IF writer.flush_buffer # 0
                  THEN [writer EXCEPT !.flush_buffer = 0,
                                      !.parts = Append(@, writer.flush_buffer),
                                      !.tasks = @ + 1,
                                      !.pc = "join"]
                  ELSE [writer EXCEPT !.pc = "join"]
    /\ UNCHANGED nowriter

\* One turn of `while let Some(result) = tasks.join_next().await`: a failed
\* part ends the flush (the set is dropped, its tasks with it).
JoinNext ==
    /\ writer.pc = "join"
    /\ writer.tasks > 0
    /\ \E ok \in BOOLEAN :
          writer' = IF ok THEN [writer EXCEPT !.tasks = @ - 1]
                    ELSE AfterFlush(writer, "PartUpload")
    /\ UNCHANGED nowriter

\* multi_part_upload.complete(), then the Add of the file with the
\* file_size taken before the upload.  The object a completed upload stores
\* is the parts that were put, in order, without those that failed.
CompleteUpload ==
    /\ writer.pc = "join"
    /\ writer.tasks = 0
    /\ \E ok \in BOOLEAN, addOk \in BOOLEAN :
          LET stored == [writer EXCEPT !.store = @ \cup
                            {[part |-> writer.part_counter,
                              size |-> SumSeq(writer.parts) - writer.lost]}]
              by == writer.caller
          IN writer' =
                IF ~ok THEN AfterFlush(writer, "ObjectStore")
                ELSE IF ~addOk THEN AfterFlush(stored, "CreateAdd")
                ELSE AfterFlush(
                        [stored EXCEPT !.files_written =
                            Append(@, AddFile(writer.part_counter, writer.file_size,
                                              writer.flush_rows, writer.flush_estimate, by))],
                        "Ok")
    /\ UNCHANGED nowriter

\* The caller of a write that returned an error keeps the writer: write
\* takes &mut self and leaves the writer as the failed call left it, with the
\* encoder and the buffer it holds by then.  (close takes the writer by
\* value: a failed close drops it.)
KeepWriter ==
    /\ writer.pc = "failed"
    /\ writer.caller = "write"
    /\ writer' = [writer EXCEPT !.pc = "open", !.write_failed = TRUE,
                                !.offset = 0, !.max_offset = 0,
                                !.flush_buffer = 0, !.flush_rows = 0, !.flush_estimate = 0,
                                !.tasks = 0, !.parts = <<>>, !.part_failed = FALSE,
                                !.file_size = 0, !.lost = 0]
    /\ UNCHANGED nowriter

WriterNext ==
    \/ WriterWrite
    \/ WriteBatch
    \/ WriterClose
    \/ FlushClose
    \/ PutMultipart
    \/ UploadPart
    \/ UploadRest
    \/ JoinNext
    \/ CompleteUpload

WriterSpec == WriterInit /\ [][WriterNext]_vars

\* A caller with up to MaxKeptRows rows to write, who goes on with the
\* writer after a write that returned an error.
KeepInit ==
    /\ writer \in NewWriters(MaxKeptRows)
    /\ process = NoProcess
    /\ NoCommit

KeepNext ==
    \/ KeepWriter
    \/ WriterNext

KeepSpec == KeepInit /\ [][KeepNext]_vars

\* ------------------------------------------------------ upload_part_size
\* What upload_part_size does not write.
noprocess == <<commitvars, writer>>

\* A process started with some value of DELTARS_UPLOAD_PART_SIZE, or none.
PartSizeInit ==
    /\ process \in {[NoProcess EXCEPT !.env = e] : e \in EnvValues}
    /\ writer = NoWriter
    /\ NoCommit

\* std::env::set_var / remove_var on DELTARS_UPLOAD_PART_SIZE.
SetEnv ==
    /\ \E e \in EnvValues \ {process.env} : process' = [process EXCEPT !.env = e]
    /\ UNCHANGED noprocess

\* upload_part_size(): the value UPLOAD_SIZE holds, set from the
\* environment by the first call.
UploadPartSize ==
    /\ LET value == IF process.UPLOAD_SIZE.set THEN process.UPLOAD_SIZE.value
                    ELSE InitUploadSize(process.env)
       IN process' = [process EXCEPT
                         !.UPLOAD_SIZE = [set |-> TRUE, value |-> value],
                         !.ret = [some |-> TRUE, value |-> value],
                         !.first_env = IF process.UPLOAD_SIZE.set THEN @ ELSE process.env,
                         !.called_after_change =
                             @ \/ (process.UPLOAD_SIZE.set /\ process.env # process.first_env)]
    /\ UNCHANGED noprocess

PartSizeNext ==
    \/ SetEnv
    \/ UploadPartSize

PartSizeSpec == PartSizeInit /\ [][PartSizeNext]_vars

\* ------------------------------------------------------- CommitData::new
\* A caller with an action list and a list of application transactions, no
\* pipeline under way.
DataInit ==
    /\ commit_data \in {[stage |-> "input", actions |-> as, app_transactions |-> ts,
                           out |-> <<>>, ret |-> "none", bytes |-> <<>>] :
                    as \in SeqsUpTo(ActionInputs, MaxActions),
                    ts \in SeqsUpTo(TxnInputs, MaxTxns)}
    /\ log = [v \in Versions |-> None]
    /\ tmp = {}
    /\ logStoreName = "DefaultLogStore"
    /\ external = 0
    /\ pc = [p \in Pipelines |-> "builder"]
    /\ table_data = [p \in Pipelines |-> NoTable]
    /\ actions_valid = [p \in Pipelines |-> TRUE]
    /\ max_retries = [p \in Pipelines |-> DEFAULT_RETRIES]
    /\ commit_or_bytes = [p \in Pipelines |-> "none"]
    /\ read_snapshot = [p \in Pipelines |-> NoTable]
    /\ attempt_number = [p \in Pipelines |-> 0]
    /\ latest_version = [p \in Pipelines |-> 0]
    /\ steps = [p \in Pipelines |-> 0]
    /\ version = [p \in Pipelines |-> 0]
    /\ result = [p \in Pipelines |-> NotReturned]
    /\ ops = [p \in Pipelines |-> <<>>]
    /\ post = [p \in Pipelines |-> NoPost]
    /\ finalized = [p \in Pipelines |-> NotFinalized]
    /\ checkpoints = {}
    /\ cleaned = {}
    /\ writer = NoWriter
    /\ process = NoProcess

\* The call CommitData::new(actions, operation, app_metadata, app_transactions).
NewCommitData ==
    /\ commit_data.stage = "input"
    /\ commit_data' = [commit_data EXCEPT !.stage = "new",
                                          !.out = CommitDataNew(commit_data.actions, commit_data.app_transactions)]
    /\ UNCHANGED <<postvars, writer, process, shared, pc, table_data, actions_valid, max_retries,
                   commit_or_bytes, read_snapshot, attempt_number, latest_version, steps,
                   version, result, ops>>

\* CommitData::get_bytes, on the CommitData CommitData::new returned or on one
\* made of the caller's list as it is (the fields of CommitData are public).
GetBytesCall ==
    /\ commit_data.stage \in {"input", "new"}
    /\ LET actions == IF commit_data.stage = "input" THEN commit_data.actions
                      ELSE commit_data.out
       IN \E bad \in 0..Len(actions) :
             LET r == GetBytes(actions, bad)
             IN commit_data' = [commit_data EXCEPT !.stage = "bytes", !.out = actions,
                                                   !.ret = r.ret, !.bytes = r.bytes]
    /\ UNCHANGED <<postvars, writer, process, shared, pc, table_data, actions_valid, max_retries,
                   commit_or_bytes, read_snapshot, attempt_number, latest_version, steps,
                   version, result, ops>>

DataNext == NewCommitData \/ GetBytesCall

DataSpec == DataInit /\ [][DataNext]_vars

\* ---------------------------------------------------- reading the histories
Done(p) == pc[p] \in {"done", "postcommit"}

Idx(p) == 1..Len(ops[p])

IsWrite(e) == e.op = "write_commit_entry"
IsCheck(e) == e.op \in {"check_conflicts", "read_commit_entry"}

\* The indices of the pipeline's write_commit_entry calls, and of those that
\* returned VersionAlreadyExists.
WriteIdx(p) == {i \in Idx(p) : IsWrite(ops[p][i])}
VaeIdx(p) == {i \in WriteIdx(p) : ops[p][i].r = "VersionAlreadyExists"}

ObservedVAE(p) == VaeIdx(p) # {}

\* The versions the pipeline's payload is installed at.
InstalledBy(p) == {v \in Versions : log[v] = p}

Other(p) == CHOOSE q \in Pipelines : q # p

\* The indices of the get_latest_version calls that reported a version newer
\* than the pipeline's snapshot (the hint is the snapshot's version).
BehindIdx(p) ==
    {i \in Idx(p) : /\ ops[p][i].op = "get_latest_version"
                    /\ ops[p][i].r = "Ok"
                    /\ ops[p][i].n > ops[p][i].v}

\* The PostCommit a finalize returns: it holds the version the pipeline
\* installed and the retries that took; without a table reference that is
\* version 0 after no retry, with one the snapshot handed over is at the
\* version right below, and every retry was one version lost to another writer.
PostCommitShape ==
    \A p \in Pipelines :
        pc[p] = "postcommit" =>
            /\ result[p] = Returned("Ok", version[p], result[p].num_retries)
            /\ log[version[p]] = p
            /\ \A v \in 0..version[p] : Installed(v)
            /\ p \notin tmp
            /\ commit_or_bytes[p] =
                  IF UsesConditionalPut(logStoreName) THEN "LogBytes" ELSE "TmpCommit"
            /\ IF table_data[p] = NoTable
               THEN version[p] = 0 /\ result[p].num_retries = 0
               ELSE /\ read_snapshot[p] = version[p] - 1
                    /\ latest_version[p] = version[p] - 1
                    /\ table_data[p] \in 0..read_snapshot[p]
                    /\ attempt_number[p] = result[p].num_retries + 1
                    /\ result[p].num_retries \in 0..((version[p] - 1) - table_data[p])

\* --------------------------------------------------------------- claims

\* A call that returned Ok owns the entry at its version ever after (so no two
\* calls for one version both returned Ok), and a call that returned
\* VersionAlreadyExists found another writer's entry, which is still there.
C1_WinnerOwnsEntry ==
    \A p \in Pipelines : \A i \in WriteIdx(p) :
        LET e == ops[p][i]
        IN /\ e.r = "Ok" => log[e.v] = p
           /\ e.r = "VersionAlreadyExists" => log[e.v] \notin {None, p}

\* No step changes or removes an installed entry.
C1_NeverOverwritten ==
    \A v \in Versions : log[v] # None => log'[v] = log[v]

\* C1: of the calls write_commit_entry(v) of any two callers at most one returns
\* Ok; every other one fails with VersionAlreadyExists and leaves the winner's
\* entry at v in place; an installed version is never overwritten.  (That
\* write_commit_entry(v + 1) still succeeds afterwards is C1_Witness.)
C1_AtomicInstall == []C1_WinnerOwnsEntry /\ [][C1_NeverOverwritten]_vars

\* C1 witness: a pipeline lost the race for a version, and its next
\* write_commit_entry, one version up, succeeded.
C1_Witness ==
    \E p \in Pipelines : \E i, j \in WriteIdx(p) :
        /\ i < j
        /\ ops[p][i].r = "VersionAlreadyExists"
        /\ log[ops[p][i].v] = Other(p)
        /\ ops[p][j].r = "Ok"
        /\ ops[p][j].v = ops[p][i].v + 1

\* The two pipelines read the same snapshot of an existing table and nobody
\* else has installed anything.
SameSnapshotAlone ==
    /\ external = 0
    /\ \A p \in Pipelines : pc[p] # "builder" /\ table_data[p] # NoTable
    /\ table_data["A"] = table_data["B"]

\* Both pipelines called write_commit_entry for version v and neither call
\* failed on storage.
BothTried(v) ==
    \A p \in Pipelines : \E i \in WriteIdx(p) :
        ops[p][i].v = v /\ ops[p][i].r \in {"Ok", "VersionAlreadyExists"}

\* The pipeline's first get_latest_version already reported the other
\* pipeline's install.
SawInstallAtFirst(p) ==
    \E i \in BehindIdx(p) : \A j \in Idx(p) : j < i => ops[p][j].op = "put"

\* C2 (as amended): with A and B on the same snapshot and no other writer, at
\* most one of them ever observes VersionAlreadyExists; exactly one does
\* once both have called write_commit_entry for the same version without a
\* storage failure, and none does when one installed before the other's
\* first get_latest_version.
C2_AtMostOneObservesVAE ==
    SameSnapshotAlone =>
        /\ ~(ObservedVAE("A") /\ ObservedVAE("B"))
        /\ \A v \in Versions :
              BothTried(v) => (ObservedVAE("A") \/ ObservedVAE("B"))
        /\ (\E p \in Pipelines : SawInstallAtFirst(p)) =>
              ~ObservedVAE("A") /\ ~ObservedVAE("B")

\* C2 witness: both pipelines went for the same version and one of them
\* observed VersionAlreadyExists there.
C2_Witness ==
    /\ SameSnapshotAlone
    /\ \E v \in Versions : BothTried(v)
    /\ ObservedVAE("B")
    /\ ~ObservedVAE("A")
    /\ \A p \in Pipelines : result[p].kind = "Ok"

\* C2 as stated: with A and B on the same snapshot and no other writer, once
\* both have committed, exactly one of them has observed VersionAlreadyExists.
C2_ExactlyOneObservesVAE ==
    (SameSnapshotAlone /\ \A p \in Pipelines : result[p].kind = "Ok") =>
        (ObservedVAE("A") /\ ~ObservedVAE("B")) \/ (ObservedVAE("B") /\ ~ObservedVAE("A"))

\* Every storage call of the pipeline succeeded and the gate and the
\* serialization accepted its actions: it ended in Ok, CommitConflict or
\* MaxCommitAttempts.
NoFailure(p) == result[p].kind \in {"Ok", "CommitConflict", "MaxCommitAttempts"}

\* A and B on the same snapshot v, with the default retry budget, no other
\* writer and no storage failure: once both have returned, either both
\* committed, at v+1 and v+2, or one committed at v+1 and the other returned
\* CommitConflict.
C3_Outcome ==
    LET v == table_data["A"]
    IN (/\ SameSnapshotAlone
        /\ \A p \in Pipelines : max_retries[p] = DEFAULT_RETRIES /\ Done(p) /\ NoFailure(p))
       => \E p \in Pipelines :
             /\ result[p] = Returned("Ok", v + 1, 0)
             /\ InstalledBy(p) = {v + 1}
             /\ \/ /\ result[Other(p)].kind = "Ok"
                   /\ result[Other(p)].arg = v + 2
                   /\ InstalledBy(Other(p)) = {v + 2}
                \/ /\ result[Other(p)].kind = "CommitConflict"
                   /\ InstalledBy(Other(p)) = {}
                   /\ ~Installed(v + 2)

\* C3: two pipelines on the same snapshot v, with the default retry budget, no
\* other writer and no storage failure, both return, and then either both
\* have committed, at the consecutive versions v+1 and v+2, or one has
\* committed at v+1 and the other has returned CommitConflict.
C3_TwoPipelines == []C3_Outcome /\ \A p \in Pipelines : <>[]Done(p)

\* C3 witness: both committed, the loser of the race at v+1 one version up.
C3_Witness ==
    /\ SameSnapshotAlone
    /\ \A p \in Pipelines : max_retries[p] = DEFAULT_RETRIES
    /\ result["B"].kind = "Ok" /\ result["A"].kind = "Ok"
    /\ result["A"].arg = result["B"].arg + 1
    /\ ObservedVAE("A")

\* C4: after get_latest_version reported latest > snapshot (max_retries > 0),
\* the calls that follow are the checker's, one per version of
\* (snapshot, latest] in ascending order, then the snapshot update, and only
\* then write_commit_entry; a checker failure is the pipeline's last call and
\* makes it return CommitConflict.
C4_CheckerBeforeInstall ==
    \A p \in Pipelines : max_retries[p] > 0 =>
        /\ \A i \in BehindIdx(p) :
              LET snap == ops[p][i].v
                  d == ops[p][i].n - snap
              IN /\ \A k \in 1..d : i + k <= Len(ops[p]) =>
                        /\ IsCheck(ops[p][i + k])
                        /\ ops[p][i + k].v = snap + k
                        /\ ops[p][i + k].r # "Ok" => i + k = Len(ops[p])
                 /\ i + d + 1 <= Len(ops[p]) =>
                        ops[p][i + d + 1] = Event("update", snap + d, 0, "Ok")
                        \/ /\ ops[p][i + d + 1] = Event("update", snap + d, 0, "UpdateError")
                           /\ i + d + 1 = Len(ops[p])
                 /\ i + d + 2 <= Len(ops[p]) =>
                        IsWrite(ops[p][i + d + 2]) /\ ops[p][i + d + 2].v = snap + d + 1
        /\ \A j \in Idx(p) : IsCheck(ops[p][j]) =>
              \E i \in BehindIdx(p) : i < j /\ j <= i + (ops[p][i].n - ops[p][i].v)
        /\ \A j \in Idx(p) : ops[p][j].r = "CommitConflict" =>
              /\ j = Len(ops[p])
              /\ pc[p] = "done"
              /\ result[p].kind = "CommitConflict"
              /\ InstalledBy(p) = {}

\* C4 witness: a pipeline two versions behind ran the checker on both, in
\* order, and then installed.
C4_Witness ==
    \E p \in Pipelines : \E i \in BehindIdx(p) :
        /\ max_retries[p] > 0
        /\ ops[p][i].n - ops[p][i].v = 2
        /\ i + 4 <= Len(ops[p])
        /\ ops[p][i + 4].r = "Ok"
        /\ IsWrite(ops[p][i + 4])

\* C4 witness of the failure: the checker failed on the second of two versions.
C4_WitnessConflict ==
    \E p \in Pipelines : \E i \in BehindIdx(p) :
        /\ ops[p][i].n - ops[p][i].v = 2
        /\ Len(ops[p]) = i + 2
        /\ ops[p][i + 2].r = "CommitConflict"

\* Finalize on an existing table calls write_commit_entry at most
\* max_retries + 1 times, and when max_retries + 1 calls all returned
\* VersionAlreadyExists it has returned MaxCommitAttempts(max_retries) with
\* nothing of its own installed.
C5_BoundedInstalls ==
    \A p \in Pipelines : table_data[p] # NoTable =>
        /\ Cardinality(WriteIdx(p)) <= max_retries[p] + 1
        /\ Cardinality(VaeIdx(p)) = max_retries[p] + 1 =>
              /\ pc[p] = "done"
              /\ result[p] = Returned("MaxCommitAttempts", max_retries[p], 0)
              /\ InstalledBy(p) = {}

\* C5: finalize on an existing table always returns, having called
\* write_commit_entry at most max_retries + 1 times; if all max_retries + 1
\* calls returned VersionAlreadyExists it returns
\* MaxCommitAttempts(max_retries) and has installed nothing.
C5_FinalizeTerminates ==
    []C5_BoundedInstalls /\ \A p \in Pipelines : (pc[p] = "prepared") ~> Done(p)

\* C5 witness: a pipeline with max_retries = 1 lost two races and gave up.
C5_Witness ==
    \E p \in Pipelines :
        /\ table_data[p] # NoTable
        /\ max_retries[p] = 1
        /\ Cardinality(VaeIdx(p)) = 2
        /\ result[p].kind = "MaxCommitAttempts"

\* C6 (as amended): with max_retries = 0 the checker is never invoked and
\* write_commit_entry is called at most once.  When get_latest_version reports
\* a version newer than the snapshot the pipeline returns MaxCommitAttempts(0)
\* at once, without an install attempt; when the other writer installs after
\* get_latest_version, the one install attempt observes VersionAlreadyExists
\* and the pipeline returns MaxCommitAttempts(0).  Nothing is installed.
C6_ZeroRetries ==
    \A p \in Pipelines : (table_data[p] # NoTable /\ max_retries[p] = 0) =>
        /\ \A i \in Idx(p) : ~IsCheck(ops[p][i]) /\ ops[p][i].op # "update"
        /\ Cardinality(WriteIdx(p)) <= 1
        /\ BehindIdx(p) # {} =>
              /\ WriteIdx(p) = {}
              /\ pc[p] = "done"
              /\ result[p] = Returned("MaxCommitAttempts", 0, 0)
        /\ VaeIdx(p) # {} =>
              /\ pc[p] = "done"
              /\ result[p] = Returned("MaxCommitAttempts", 0, 0)
              /\ InstalledBy(p) = {}
        /\ result[p].kind = "MaxCommitAttempts" => BehindIdx(p) # {} \/ VaeIdx(p) # {}

\* C6 witness: another writer installed before the pipeline asked for the
\* latest version, and the pipeline, with max_retries = 0, gave up without
\* an install attempt.
C6_Witness ==
    \E p \in Pipelines :
        /\ max_retries[p] = 0
        /\ BehindIdx(p) # {}
        /\ WriteIdx(p) = {}
        /\ result[p] = Returned("MaxCommitAttempts", 0, 0)

\* C6 witness of the other case: the install attempt lost the race.
C6_WitnessRace ==
    \E p \in Pipelines :
        /\ max_retries[p] = 0
        /\ VaeIdx(p) # {}
        /\ result[p] = Returned("MaxCommitAttempts", 0, 0)

\* C6 as stated: with max_retries = 0, a pipeline that returns
\* MaxCommitAttempts(0) has attempted the install and observed
\* VersionAlreadyExists.
C6_InstallAttempted ==
    \A p \in Pipelines :
        (table_data[p] # NoTable /\ max_retries[p] = 0 /\ result[p].kind = "MaxCommitAttempts")
        => VaeIdx(p) # {}

\* C7 (as amended): VersionAlreadyExists is returned to the caller only on the
\* creation path, from the one install at version 0.  On an existing table
\* every VersionAlreadyExists of write_commit_entry is followed by the next
\* attempt's get_latest_version or, when it was call number max_retries + 1,
\* by the return of MaxCommitAttempts(max_retries).
C7_VAEAbsorbed ==
    \A p \in Pipelines :
        /\ result[p].kind = "VersionAlreadyExists" =>
              /\ table_data[p] = NoTable
              /\ WriteIdx(p) = {Len(ops[p])}
              /\ ops[p][Len(ops[p])].v = 0
        /\ table_data[p] # NoTable =>
              \A i \in VaeIdx(p) :
                 IF Cardinality({j \in VaeIdx(p) : j <= i}) = max_retries[p] + 1
                 THEN /\ i = Len(ops[p])
                      /\ result[p] = Returned("MaxCommitAttempts", max_retries[p], 0)
                 ELSE \/ i = Len(ops[p]) /\ pc[p] = "get_latest" /\ result[p] = NotReturned
                      \/ i < Len(ops[p]) /\ ops[p][i + 1].op = "get_latest_version"

\* C7 witness: on an existing table a VersionAlreadyExists was absorbed by a
\* retry that committed.
C7_Witness ==
    \E p \in Pipelines :
        /\ table_data[p] # NoTable
        /\ VaeIdx(p) # {}
        /\ result[p].kind = "Ok"
        /\ result[p].num_retries = 1

\* C7 as stated: a pipeline returns VersionAlreadyExists only when its
\* max_retries are exhausted, after max_retries + 1 failed installs.
C7_OnlyWhenExhausted ==
    \A p \in Pipelines :
        result[p].kind = "VersionAlreadyExists" => Cardinality(VaeIdx(p)) = max_retries[p] + 1

\* C8: a pipeline with a TmpCommit payload that returns the install's error
\* (an error of write_commit_entry other than VersionAlreadyExists) has called
\* abort_commit_entry with the version of that install, and its staged temp
\* object is gone.
C8_AbortAfterInstallError ==
    \A p \in Pipelines :
        (/\ commit_or_bytes[p] = "TmpCommit"
         /\ pc[p] = "done"
         /\ result[p].kind = "InstallError")
        => /\ p \notin tmp
           /\ \E i \in Idx(p) :
                 /\ ops[p][i] = Event("abort_commit_entry", version[p], 0, "Ok")
                 /\ i > 1
                 /\ ops[p][i - 1] = Event("write_commit_entry", version[p], 0, "InstallError")

\* C8 in the retry loop, where the code does call abort_commit_entry.
C8_AbortInLoop ==
    \A p \in Pipelines :
        (/\ commit_or_bytes[p] = "TmpCommit"
         /\ table_data[p] # NoTable
         /\ pc[p] = "done"
         /\ result[p].kind = "InstallError")
        => /\ p \notin tmp
           /\ ops[p][Len(ops[p])] = Event("abort_commit_entry", version[p], 0, "Ok")

\* C9: a pipeline on an existing table that staged a TmpCommit and has
\* returned, with success or with a terminal error, has left no staged temp
\* object behind.
C9_NoStagedTempLeft ==
    \A p \in Pipelines :
        (/\ commit_or_bytes[p] = "TmpCommit"
         /\ table_data[p] # NoTable
         /\ Done(p)
         /\ result[p].kind \in {"Ok", "CommitConflict", "MaxCommitAttempts", "LatestError",
                                "ReadError", "UpdateError", "InstallError"})
        => p \notin tmp

\* C9 for the one outcome the code keeps it for: success.
C9_RenamedOnSuccess ==
    \A p \in Pipelines :
        (commit_or_bytes[p] = "TmpCommit" /\ result[p].kind = "Ok") => p \notin tmp

\* C10: when a table reference is given and the gate rejects the actions, the
\* pipeline returns the gate's error having made no call on storage: nothing
\* is staged and no payload exists.
C10_GateBeforeStorage ==
    \A p \in Pipelines :
        (table_data[p] # NoTable /\ ~actions_valid[p] /\ pc[p] \notin {"builder", "precommit"})
        => /\ pc[p] = "done"
           /\ result[p] = Returned("ProtocolGate", 0, 0)
           /\ ops[p] = <<>>
           /\ p \notin tmp
           /\ commit_or_bytes[p] = "none"

\* C10 witness: the gate rejected a pipeline of a rename-based driver, which
\* stages a temp object for every pipeline the gate lets through.
C10_Witness ==
    \E p \in Pipelines :
        /\ ~UsesConditionalPut(logStoreName)
        /\ table_data[p] # NoTable
        /\ ~actions_valid[p]
        /\ result[p].kind = "ProtocolGate"
        /\ Other(p) \in tmp

\* The calls of a pipeline without a table reference, once prepare is over:
\* at most one write_commit_entry, at version 0, and no get_latest_version,
\* no read of a winning commit, no conflict check, no snapshot update.  Once
\* finalize has returned there is exactly one such call; on Ok the pipeline
\* holds PostCommit{version: 0, num_retries: 0} and owns version 0, on a
\* rejection it returns the driver's error as it is and owns nothing.
C11_OneInstallAtZero ==
    \A p \in Pipelines :
        (table_data[p] = NoTable /\ pc[p] \notin {"builder", "precommit"}) =>
            /\ \A i \in Idx(p) : ops[p][i].op \in {"put", "write_commit_entry"}
            /\ \A i \in WriteIdx(p) : ops[p][i].v = 0
            /\ Cardinality(WriteIdx(p)) <= 1
            /\ pc[p] = "prepared" => WriteIdx(p) = {}
            /\ (Done(p) /\ commit_or_bytes[p] # "none") =>
                  /\ Cardinality(WriteIdx(p)) = 1
                  /\ LET e == ops[p][Len(ops[p])]
                     IN /\ IsWrite(e)
                        /\ IF e.r = "Ok"
                           THEN /\ result[p] = Returned("Ok", 0, 0)
                                /\ version[p] = 0
                                /\ log[0] = p
                           ELSE /\ result[p] = Returned(e.r, 0, 0)
                                /\ e.r \in {"VersionAlreadyExists", "InstallError"}
                                /\ InstalledBy(p) = {}

\* A creation that the driver rejects leaves the log as it was.
C11_RejectedLeavesLog ==
    \A p \in Pipelines :
        (/\ pc[p] = "prepared"
         /\ table_data[p] = NoTable
         /\ pc'[p] # pc[p]
         /\ result'[p].kind # "Ok") => log' = log

\* C11: on the creation path (no table reference) finalize makes exactly one
\* write_commit_entry call, at version 0, without get_latest_version, conflict
\* checker or retry; on Ok it yields PostCommit with version 0 and
\* num_retries 0; a rejection of the driver is returned as it is and the log
\* is unchanged.
C11_CreationPath == []C11_OneInstallAtZero /\ [][C11_RejectedLeavesLog]_vars

\* C11 witness: two creations raced for version 0; one holds PostCommit at
\* version 0, the other got VersionAlreadyExists back after its one call.
C11_Witness ==
    \E p \in Pipelines :
        /\ table_data[p] = NoTable /\ table_data[Other(p)] = NoTable
        /\ result[p] = Returned("Ok", 0, 0)
        /\ log[0] = p
        /\ result[Other(p)] = Returned("VersionAlreadyExists", 0, 0)
        /\ Cardinality(WriteIdx(Other(p))) = 1

\* Above the pipeline's snapshot version the log holds exactly one commit of
\* another writer, right above the snapshot.
OneOtherCommit(p) ==
    /\ table_data[p] # NoTable
    /\ Installed(table_data[p] + 1)
    /\ log[table_data[p] + 1] # p
    /\ \A w \in Versions : w > table_data[p] + 1 => log[w] \in {None, p}

\* The pipeline was given a retry budget, has returned, and neither the
\* checker nor storage failed it.
ReturnedOk(p) == max_retries[p] >= 1 /\ Done(p) /\ result[p].kind = "Ok"

\* C13 (as amended): when A has read snapshot v and exactly one other commit,
\* which passes the conflict check, is installed at v+1 before A installs, A
\* finalizes at v+2; its num_retries is 1 when the other commit is installed
\* between A's get_latest_version and its write_commit_entry (A observes
\* VersionAlreadyExists once), and 0 when A's first get_latest_version
\* already reports it.
C13_OneInterveningCommit ==
    \A p \in Pipelines :
        (OneOtherCommit(p) /\ Done(p) /\ max_retries[p] >= 1 /\ NoFailure(p)
            /\ result[p].kind # "CommitConflict") =>
            /\ result[p].kind = "Ok"
            /\ result[p].arg = table_data[p] + 2
            /\ InstalledBy(p) = {table_data[p] + 2}
            /\ \E i \in Idx(p) : /\ ops[p][i] = Event("check_conflicts", table_data[p] + 1, 0, "Ok")
                                  /\ \A j \in WriteIdx(p) : ops[p][j].r = "Ok" => i < j
            /\ result[p].num_retries = IF SawInstallAtFirst(p) THEN 0 ELSE 1
            /\ SawInstallAtFirst(p) <=> ~ObservedVAE(p)

\* C13 witness: the other commit came between A's get_latest_version and its
\* install; A retried once and holds v+2 with num_retries 1.
C13_Witness ==
    \E p \in Pipelines :
        /\ OneOtherCommit(p) /\ ReturnedOk(p)
        /\ Cardinality(VaeIdx(p)) = 1
        /\ result[p] = Returned("Ok", table_data[p] + 2, 1)

\* C13 witness: the other commit was there at A's first get_latest_version;
\* A holds v+2 with num_retries 0.
C13_WitnessNoRetry ==
    \E p \in Pipelines :
        /\ OneOtherCommit(p) /\ ReturnedOk(p)
        /\ SawInstallAtFirst(p)
        /\ result[p] = Returned("Ok", table_data[p] + 2, 0)

\* C13 as stated: with one other commit installed at v+1 before A installs, A
\* finalizes at v+2 with num_retries = 1.
C13_AlwaysOneRetry ==
    \A p \in Pipelines :
        (OneOtherCommit(p) /\ ReturnedOk(p)) =>
            result[p] = Returned("Ok", table_data[p] + 2, 1)

\* Nobody but the pipeline has installed above its snapshot version.
NoConcurrentWriter(p) ==
    /\ table_data[p] # NoTable
    /\ \A w \in Versions : w > table_data[p] => log[w] \in {None, p}

\* C14: with no concurrent writer (the log's latest version is the pipeline's
\* snapshot version v during finalize) finalize installs at exactly v + 1 on
\* its first attempt, with num_retries = 0 and without the conflict checker
\* or the snapshot update; short of a storage failure it succeeds.
C14_LinearAppend ==
    \A p \in Pipelines :
        (NoConcurrentWriter(p) /\ pc[p] \notin {"builder", "precommit"}) =>
            /\ \A i \in Idx(p) :
                  /\ ops[p][i].op \in {"put", "get_latest_version", "write_commit_entry",
                                       "abort_commit_entry"}
                  /\ ops[p][i].op = "get_latest_version" /\ ops[p][i].r = "Ok"
                        => ops[p][i].n = table_data[p]
                  /\ IsWrite(ops[p][i]) => ops[p][i].v = table_data[p] + 1
            /\ Cardinality(WriteIdx(p)) <= 1
            /\ VaeIdx(p) = {}
            /\ (Done(p) /\ NoFailure(p)) =>
                  /\ result[p] = Returned("Ok", table_data[p] + 1, 0)
                  /\ InstalledBy(p) = {table_data[p] + 1}
                  /\ attempt_number[p] = 1

\* C14 witness: an append on top of version 0 with the log to itself.
C14_Witness ==
    \E p \in Pipelines :
        /\ NoConcurrentWriter(p)
        /\ table_data[p] = 0
        /\ result[p] = Returned("Ok", 1, 0)
        /\ log[1] = p
        /\ Len(ops[p]) >= 2
        /\ ops[p][Len(ops[p]) - 1] = Event("get_latest_version", 0, 0, "Ok")

\* The pipeline's store.put calls of the prepare stage.
PutIdx(p) == {i \in Idx(p) : ops[p][i].op = "put"}

\* The pipeline is inside the retry loop of finalize.
InLoop(p) == pc[p] \in {"get_latest", "check", "update", "write"}

\* Where a pipeline was told VersionAlreadyExists the entry is another
\* writer's; the payload is staged at most once, before every other call, not
\* at all for LogBytes, and a staged TmpCommit is still there for the next
\* attempt.
C16_LoserLeavesNothing ==
    \A p \in Pipelines :
        /\ \A i \in VaeIdx(p) : log[ops[p][i].v] \notin {None, p}
        /\ PutIdx(p) \subseteq {1}
        /\ commit_or_bytes[p] = "LogBytes" => PutIdx(p) = {}
        /\ commit_or_bytes[p] = "TmpCommit" => PutIdx(p) = {1}
        /\ (InLoop(p) /\ commit_or_bytes[p] = "TmpCommit") => p \in tmp

\* The payload chosen by prepare is the one of every attempt, and a
\* VersionAlreadyExists changes neither the log nor the staged objects.
C16_PayloadKept ==
    \A p \in Pipelines :
        /\ pc[p] \notin {"builder", "precommit"} => commit_or_bytes'[p] = commit_or_bytes[p]
        /\ (pc[p] \in {"prepared", "write"} /\ Len(ops'[p]) > Len(ops[p])
              /\ ops'[p][Len(ops'[p])].r = "VersionAlreadyExists")
           => log' = log /\ tmp' = tmp

\* C16: when write_commit_entry(v) returns VersionAlreadyExists nothing of the
\* pipeline persists at v (the entry is still the winner's) and its staged
\* payload is unchanged: every attempt passes the payload prepare made, which
\* is staged once and never serialized or staged again.
C16_RetryKeepsPayload == []C16_LoserLeavesNothing /\ [][C16_PayloadKept]_vars

\* C16 witness: a pipeline with a staged TmpCommit lost a version, retried
\* with the same staged object and installed it one version up.
C16_Witness ==
    \E p \in Pipelines :
        /\ commit_or_bytes[p] = "TmpCommit"
        /\ PutIdx(p) = {1}
        /\ Cardinality(VaeIdx(p)) = 1
        /\ result[p].kind = "Ok"
        /\ result[p].num_retries = 1
        /\ p \notin tmp

\* C12: on every successful finalize the returned num_retries is the number
\* of times the install step was re-entered, that is the number of the
\* pipeline's write_commit_entry calls that returned VersionAlreadyExists
\* (all of them before the one that returned Ok); inside the loop
\* attempt_number - 1 is that number so far.
C12_NumRetriesCountsVAE ==
    \A p \in Pipelines :
        /\ InLoop(p) => attempt_number[p] - 1 = Cardinality(VaeIdx(p))
        /\ result[p].kind = "Ok" =>
              /\ result[p].num_retries = Cardinality(VaeIdx(p))
              /\ Cardinality(WriteIdx(p)) = result[p].num_retries + 1
              /\ \A i \in WriteIdx(p) :
                    ops[p][i].r = IF i = Len(ops[p]) THEN "Ok" ELSE "VersionAlreadyExists"

\* C12 witness: a finalize that lost one version and installed the next
\* returned num_retries = 1 after two write_commit_entry calls.
C12_Witness ==
    \E p \in Pipelines :
        /\ result[p].kind = "Ok"
        /\ result[p].num_retries = 1
        /\ Cardinality(WriteIdx(p)) = 2
        /\ InstalledBy(p) = {result[p].arg}

\* The FinalizedCommit of a post-commit stage that returned Ok carries the
\* version and the num_retries of the PostCommit it was awaited on.
FinalizedCarriesPostCommit ==
    \A p \in Pipelines :
        finalized[p].kind = "Ok" =>
            /\ finalized[p].version = version[p]
            /\ finalized[p].version = result[p].arg
            /\ finalized[p].num_retries = result[p].num_retries

\* The pipeline's post-commit stage returned a FinalizedCommit.
PostReturnedOk(p) == pc[p] = "returned" /\ finalized[p].kind = "Ok"

\* C17 (as amended): when the post-commit stage of a commit at `version`
\* returns a FinalizedCommit, new_checkpoint_created is true, and a
\* checkpoint for `version` was written, if and only if the pipeline had a
\* table reference, the builder's create_checkpoint option is set,
\* (version + 1) mod checkpoint_interval = 0 and the load config has
\* require_files; a table creation writes no checkpoint whatever the option.
C17_CheckpointIff ==
    \A p \in Pipelines :
        /\ PostReturnedOk(p) =>
              /\ finalized[p].new_checkpoint_created <=>
                    /\ table_data[p] # NoTable
                    /\ post[p].hook.some /\ post[p].hook.create_checkpoint
                    /\ (version[p] + 1) % post[p].checkpoint_interval = 0
                    /\ post[p].require_files
              /\ finalized[p].new_checkpoint_created <=> version[p] \in checkpoints
        /\ table_data[p] = NoTable => post[p].create_checkpoint = FALSE
        /\ (pc[p] # "builder" /\ version[p] \in checkpoints) =>
              /\ post[p].create_checkpoint
              /\ (version[p] + 1) % post[p].checkpoint_interval = 0
              /\ post[p].require_files

\* C17 witness: a commit at version 1 of a table with checkpoint_interval 2
\* got its checkpoint.
C17_Witness ==
    \E p \in Pipelines :
        /\ PostReturnedOk(p)
        /\ version[p] = 1
        /\ post[p].checkpoint_interval = 2
        /\ finalized[p].new_checkpoint_created
        /\ checkpoints = {1}

\* C17 witness: the option is set and the version is due, but the table was
\* loaded without files: no checkpoint.
C17_WitnessNoFiles ==
    \E p \in Pipelines :
        /\ PostReturnedOk(p)
        /\ post[p].create_checkpoint
        /\ (version[p] + 1) % post[p].checkpoint_interval = 0
        /\ ~post[p].require_files
        /\ ~finalized[p].new_checkpoint_created
        /\ checkpoints = {}

\* C17 as stated: for every successful commit, a checkpoint is created if
\* and only if the create_checkpoint option is set, the version is due and
\* the load config has require_files.
C17_OptionAloneDecides ==
    \A p \in Pipelines :
        PostReturnedOk(p) =>
            (finalized[p].new_checkpoint_created <=>
                /\ post[p].hook.some /\ post[p].hook.create_checkpoint
                /\ (version[p] + 1) % post[p].checkpoint_interval = 0
                /\ post[p].require_files)

\* The pipeline is in, or through, its post-commit stage.
InPostCommit(p) ==
    pc[p] \in {"postcommit", "before_hook", "checkpoint", "cleanup", "rematerialize",
               "after_hook", "returned"}

\* The calls of the pipeline's post-commit stage that failed.
FailedCalls(p) == {i \in 1..Len(post[p].calls) : post[p].calls[i].r # "Ok"}

\* Through the post-commit stage, and after it whatever it returned, the
\* committed version holds the pipeline's entry and its log file is there;
\* a failed step is the stage's last one and its error is what the stage
\* returned, and a FinalizedCommit is returned only when no step failed.
C18_CommitStays ==
    \A p \in Pipelines :
        InPostCommit(p) =>
            /\ log[version[p]] = p
            /\ version[p] \notin cleaned
            /\ \A i \in FailedCalls(p) :
                  /\ i = Len(post[p].calls)
                  /\ pc[p] = "returned"
                  /\ finalized[p].kind = post[p].calls[i].r
            /\ (pc[p] = "returned" /\ FailedCalls(p) = {}) => finalized[p].kind = "Ok"
            /\ pc[p] # "returned" => finalized[p] = NotFinalized

\* No step of the post-commit stage, failed or not, touches an installed entry.
C18_NoRollback ==
    \A v \in Versions :
        Installed(v) =>
            /\ log'[v] = log[v]
            /\ v \in cleaned' =>
                  \/ v \in cleaned
                  \/ \E p \in Pipelines : InPostCommit(p) /\ v < version[p]

\* C18: if a post-commit step fails (snapshot update or advance, before
\* hook, checkpoint creation, log cleanup, after hook) the error is returned
\* to the caller and the entry installed at `version` stays installed:
\* post-commit never deletes or rewrites the committed version.
C18_HookFailureKeepsCommit == []C18_CommitStays /\ [][C18_NoRollback]_vars

\* C18 witness: the after hook failed once the checkpoint was written and
\* log files were cleaned up; the caller got the hook's error and the
\* commit is in the log.
C18_Witness ==
    \E p \in Pipelines :
        /\ pc[p] = "returned"
        /\ finalized[p].kind = "AfterHookError"
        /\ version[p] \in checkpoints
        /\ cleaned # {}
        /\ log[version[p]] = p

\* C18 witness: each of the other steps failed in some run.
C18_WitnessAdvance == \E p \in Pipelines : finalized[p].kind = "AdvanceError" /\ log[version[p]] = p
C18_WitnessBeforeHook == \E p \in Pipelines : finalized[p].kind = "BeforeHookError" /\ log[version[p]] = p
C18_WitnessCheckpoint == \E p \in Pipelines : finalized[p].kind = "CheckpointError" /\ log[version[p]] = p
C18_WitnessCleanup == \E p \in Pipelines : finalized[p].kind = "CleanupError" /\ log[version[p]] = p

C19_WitnessThree ==
    \E p \in Pipelines :
        /\ PostReturnedOk(p)
        /\ finalized[p].snapshot = <<Base, External, p>>

\* C19 witness: the state was loaded anew after a log cleanup.
C19_WitnessRematerialized ==
    \E p \in Pipelines :
        /\ PostReturnedOk(p)
        /\ finalized[p].num_log_files_cleaned_up > 0
        /\ finalized[p].snapshot = <<Base, p>>

Dropped(p) == pc[p] = "dropped"

\* With pipelines dropped anywhere: every version is absent or holds the
\* entry of one writer, the installed versions have no gap (the next one can
\* be installed), a pipeline is at no more than one version, and what is left
\* in storage besides is at most the one temp object of a pipeline that
\* staged a TmpCommit and did not get to install it.
C15_Recoverable ==
    /\ \A v \in Versions :
          /\ log[v] \in {None, Base, External} \cup Pipelines
          /\ (Installed(v) /\ v > 0) => Installed(v - 1)
    /\ \A p \in Pipelines :
          /\ Cardinality(InstalledBy(p)) <= 1
          /\ p \in tmp => commit_or_bytes[p] = "TmpCommit" /\ InstalledBy(p) = {}
          /\ (Dropped(p) /\ commit_or_bytes[p] # "TmpCommit") => p \notin tmp

\* A drop changes nothing in storage, and no step changes an installed entry.
C15_DropLeavesStorage ==
    /\ \A v \in Versions : Installed(v) => log'[v] = log[v]
    /\ \A p \in Pipelines : (~Dropped(p) /\ Dropped(p)') => log' = log /\ tmp' = tmp

\* C15: if a pipeline is dropped at any suspension point storage stays
\* recoverable: every version is absent or holds the complete payload of one
\* pipeline, the only residue is one orphaned staged temp object, and the
\* log has no gap, so that the other pipelines can still commit (as one
\* does in C15_Witness).
C15_CancellationSafe == []C15_Recoverable /\ [][C15_DropLeavesStorage]_vars

\* C15 witness: a pipeline was dropped with its temp object staged and
\* nothing installed, and the other pipeline committed a version above the
\* log's latest version at the drop.
C15_Witness ==
    \E p \in Pipelines :
        /\ Dropped(p)
        /\ p \in tmp
        /\ InstalledBy(p) = {}
        /\ result[Other(p)].kind = "Ok"
        /\ result[Other(p)].arg > ops[p][1].v
        /\ log[result[Other(p)].arg] = Other(p)

\* C15 witness: a pipeline was dropped after its install had taken effect,
\* and the other pipeline committed on top of it.
C15_WitnessInstalled ==
    \E p \in Pipelines :
        /\ Dropped(p)
        /\ InstalledBy(p) # {}
        /\ result[Other(p)].kind = "Ok"
        /\ \A v \in InstalledBy(p) : result[Other(p)].arg > v

\* C20 (as amended): for every action list and every list of application
\* transactions, the actions of CommitData::new are the caller's actions in
\* their order, then the synthesized CommitInfo (only when the caller
\* supplied none), then one Txn per application transaction in their order.
\* So there is at least one CommitInfo, exactly one when the caller supplied
\* at most one, and the Txn actions are those of the application
\* transactions besides the ones the caller's list already held.
C20_CommitDataLayout ==
    commit_data.stage = "new" =>
        LET in == commit_data.actions
            ts == commit_data.app_transactions
            out == commit_data.out
            none == CountKind(in, "CommitInfo") = 0
            k == IF none THEN 1 ELSE 0
        IN /\ Len(out) = Len(in) + k + Len(ts)
           /\ \A i \in 1..Len(in) : out[i] = in[i]
           /\ none => out[Len(in) + 1] = Action("CommitInfo", "synthesized")
           /\ \A j \in 1..Len(ts) : out[Len(in) + k + j] = Action("Txn", ts[j])
           /\ CountKind(out, "CommitInfo") >= 1
           /\ CountKind(in, "CommitInfo") <= 1 => CountKind(out, "CommitInfo") = 1
           /\ CountKind(out, "CommitInfo") = IF none THEN 1 ELSE CountKind(in, "CommitInfo")
           /\ CountKind(out, "Txn") = CountKind(in, "Txn") + Len(ts)

\* C20 witness: no CommitInfo supplied and two application transactions.
C20_Witness ==
    /\ commit_data.stage = "new"
    /\ commit_data.actions = <<Action("Add", "f1")>>
    /\ commit_data.app_transactions = <<"t1", "t2">>
    /\ commit_data.out = <<Action("Add", "f1"), Action("CommitInfo", "synthesized"),
                    Action("Txn", "t1"), Action("Txn", "t2")>>

\* C20 witness: the caller's CommitInfo is kept and none is added.
C20_WitnessSupplied ==
    /\ commit_data.stage = "new"
    /\ commit_data.actions = <<Action("CommitInfo", "caller"), Action("Add", "f1")>>
    /\ commit_data.out = <<Action("CommitInfo", "caller"), Action("Add", "f1"), Action("Txn", "t2")>>

\* C20 as stated: for every input the resulting actions hold exactly one
\* CommitInfo and exactly one Txn per application transaction.
C20_ExactlyOneCommitInfo ==
    commit_data.stage = "new" =>
        /\ CountKind(commit_data.out, "CommitInfo") = 1
        /\ CountKind(commit_data.out, "Txn") = Len(commit_data.app_transactions)

\* The pipeline's write_commit_entry failed on storage, with an error other
\* than VersionAlreadyExists.
InstallFailed(p) == \E i \in WriteIdx(p) : ops[p][i].r = "InstallError"

\* C27 as stated: a pipeline whose write_commit_entry failed with an error
\* other than VersionAlreadyExists returns that install error, also where
\* abort_commit_entry itself failed.
C27_InstallErrorReturned ==
    \A p \in Pipelines :
        (InstallFailed(p) /\ pc[p] = "done") => result[p].kind = "InstallError"

\* What holds of C27: the install error is returned where abort_commit_entry
\* succeeded or was not called; where it failed, its error is returned.
C27_AbortErrorMasks ==
    \A p \in Pipelines :
        (InstallFailed(p) /\ pc[p] = "done") =>
            LET e == ops[p][Len(ops[p])]
            IN result[p].kind =
                  IF e.op = "abort_commit_entry" /\ e.r = "AbortError"
                  THEN "AbortError" ELSE "InstallError"

\* The indices of the pipeline's conflict checks of version v.
CheckIdx(p, v) ==
    {i \in Idx(p) : ops[p][i].op = "check_conflicts" /\ ops[p][i].v = v}

\* C28: across the attempts of one finalize, every version above the caller's
\* snapshot version and below a version the pipeline goes to install has been
\* passed to the conflict checker exactly once before that install, and
\* passed it; no version is checked a second time and none outside that
\* range is checked.
C28_EachVersionCheckedOnce ==
    \A p \in Pipelines :
        table_data[p] # NoTable =>
            /\ \A v \in Versions : Cardinality(CheckIdx(p, v)) <= 1
            /\ \A i \in Idx(p) :
                  ops[p][i].op = "check_conflicts" => ops[p][i].v > table_data[p]
            /\ \A i \in WriteIdx(p) :
                  /\ \A v \in (table_data[p] + 1)..(ops[p][i].v - 1) :
                        \E j \in CheckIdx(p, v) : j < i /\ ops[p][j].r = "Ok"
                  /\ \A j \in Idx(p) :
                        (j < i /\ ops[p][j].op = "check_conflicts") => ops[p][j].v < ops[p][i].v

\* C28 witness: a pipeline installed two versions above its snapshot's after
\* one retry, with the two versions in between checked in different attempts.
C28_Witness ==
    \E p \in Pipelines :
        /\ result[p].kind = "Ok"
        /\ table_data[p] # NoTable
        /\ result[p].arg = table_data[p] + 3
        /\ result[p].num_retries = 1
        /\ \E i \in CheckIdx(p, table_data[p] + 1), j \in CheckIdx(p, table_data[p] + 2),
              w \in VaeIdx(p) : i < w /\ w < j

C30_ContiguousLog ==
    /\ \A v \in Versions : Installed(v) => \A w \in 0..v : Installed(w)
    /\ \A p \in Pipelines : Cardinality(InstalledBy(p)) <= 1

\* C30 witness: both pipelines and an outside writer have installed, on top
\* of the table's first version.
C30_Witness ==
    /\ \A v \in 0..3 : Installed(v)
    /\ \A p \in Pipelines : Cardinality(InstalledBy(p)) = 1
    /\ \A p \in Pipelines : result[p].kind = "Ok"

\* No step of a pipeline that was built writes the caller's table reference.
C22_TableRefUnchanged ==
    \A p \in Pipelines : pc[p] # "builder" => table_data'[p] = table_data[p]

\* A step moves the private snapshot of one pipeline at most, the one that
\* takes the step.
C22_SnapshotPrivate ==
    \A p \in Pipelines :
        read_snapshot'[p] # read_snapshot[p] =>
            /\ pc[p] \in {"prepared", "update"}
            /\ pc'[p] # pc[p]
            /\ \A q \in Pipelines \ {p} : read_snapshot'[q] = read_snapshot[q]

\* C22: the caller's table reference keeps its version and contents through
\* finalize, whether it succeeds or fails; each pipeline works on a snapshot
\* clone of its own.
C22_CallerSnapshotKept == [][C22_TableRefUnchanged /\ C22_SnapshotPrivate]_vars

\* C22 witness: a pipeline failed after its clone was updated past the
\* caller's version, which is where the caller's reference still is; the
\* other pipeline committed.
C22_Witness ==
    \E p \in Pipelines :
        /\ pc[p] = "done"
        /\ result[p].kind # "Ok"
        /\ table_data[p] # NoTable
        /\ read_snapshot[p] > table_data[p]
        /\ result[Other(p)].kind = "Ok"

\* The post-commit stage leaves the caller's table reference alone as well.
C22_PostKeepsTableRef == [][table_data' = table_data]_vars

\* The number of line feeds in a payload.
LineFeeds(bytes) == Cardinality({i \in 1..Len(bytes) : bytes[i] = "\n"})

\* C21: get_bytes gives one line per action in the actions' order, with one
\* line feed between two lines and none at the end, and the lines parsed one
\* by one are the actions again; where an action fails to serialize the call
\* returns SerializeLogJson and no bytes.
C21_BytesRoundTrip ==
    commit_data.stage = "bytes" =>
        LET actions == commit_data.out
            bytes == commit_data.bytes
            lines == Lines(bytes, <<>>)
        IN /\ commit_data.ret \in {"Ok", "SerializeLogJson"}
           /\ commit_data.ret = "SerializeLogJson" => bytes = <<>>
           /\ commit_data.ret = "Ok" =>
                 /\ Len(lines) = Len(actions)
                 /\ LineFeeds(bytes) = IF actions = <<>> THEN 0 ELSE Len(actions) - 1
                 /\ bytes # <<>> => bytes[Len(bytes)] # "\n"
                 /\ \A i \in 1..Len(actions) :
                       ParseLine(lines[i]) =
                          [kind |-> actions[i].kind, text |-> Text(actions[i].id)]

\* C21 witness: three actions, the first with a line feed in its path, the
\* last made by CommitData::new, on three lines.
C21_Witness ==
    /\ commit_data.stage = "bytes"
    /\ commit_data.ret = "Ok"
    /\ commit_data.out = <<Action("Add", "f1"), Action("CommitInfo", "synthesized"),
                           Action("Txn", "t1")>>
    /\ Len(Lines(commit_data.bytes, <<>>)) = 3
    /\ LineFeeds(commit_data.bytes) = 2

\* C21 witness: the second action failed to serialize.
C21_WitnessFailure ==
    /\ commit_data.stage = "bytes"
    /\ commit_data.ret = "SerializeLogJson"
    /\ Len(commit_data.out) = 2
    /\ commit_data.bytes = <<>>

\* C21 witness: a CommitData without actions has the empty payload.
C21_WitnessEmpty ==
    /\ commit_data.stage = "bytes"
    /\ commit_data.ret = "Ok"
    /\ commit_data.out = <<>>
    /\ commit_data.bytes = <<>>

\* C23 as stated: the part-upload tasks spawned and not yet joined are never
\* more than 10.
C23_AtMostTenInFlight == writer.tasks <= max_concurrent_tasks

\* What holds of C23: the tasks in the set are never more than 11, and not
\* more than 10 as long as the loop over the full parts runs.
C23_AtMostElevenInFlight ==
    /\ writer.tasks <= max_concurrent_tasks + 1
    /\ writer.pc = "upload" => writer.tasks <= max_concurrent_tasks

\* A flush that finds an encoder without rows leaves the store, the Adds and
\* the part counter as they are and goes on to no upload.
C24_EmptyFlushWritesNothing ==
    (writer.pc = "flush" /\ writer.num_rows = 0 /\ writer' # writer) =>
        /\ writer'.store = writer.store
        /\ writer'.files_written = writer.files_written
        /\ writer'.part_counter = writer.part_counter
        /\ writer'.parts = <<>>
        /\ writer'.tasks = 0
        /\ writer'.pc \in {"closed", "failed"}

\* No Add and no stored object is a file without rows, and every part number
\* used is that of an upload.
C24_NoZeroRowFile ==
    /\ \A i \in 1..Len(writer.files_written) : writer.files_written[i].num_rows >= 1
    /\ \A i \in 1..Len(writer.files_written) : writer.files_written[i].size >= 1
    /\ \A o \in writer.store : o.size >= 1

\* C24: a flush whose encoder holds no rows uploads nothing, appends no Add
\* and takes no part number; so a close after a write that was flushed
\* whole returns no further file.
C24_NoEmptyFile == []C24_NoZeroRowFile /\ [][C24_EmptyFlushWritesNothing]_vars

\* C24 witness: the one write was flushed whole inside write, and close
\* found no rows and returned that one file.
C24_Witness ==
    /\ writer.pc = "closed"
    /\ writer.ret = "Ok"
    /\ writer.flush_rows = 0
    /\ writer.written = 2
    /\ Len(writer.files_written) = 1
    /\ writer.files_written[1].by = "write"
    /\ writer.files_written[1].num_rows = 2
    /\ writer.part_counter = 1

\* C25: a write with a batch of another schema returns SchemaMismatch and
\* leaves the writer as it was: buffer, encoder, files_written, part
\* counter and store, so what earlier writes buffered is still there.
C25_MismatchLeavesWriter ==
    [][(/\ writer.pc = "open"
        /\ writer'.caller = "write"
        /\ ~writer'.batch_schema_ok
        /\ writer' # writer) =>
            writer' = [writer EXCEPT !.ret = "SchemaMismatch", !.caller = "write",
                                     !.batch_schema_ok = FALSE]]_vars

\* C25 witness: a write buffered rows, the next one was refused for its
\* schema, and the rows are still in the encoder with nothing uploaded.
C25_Witness ==
    /\ writer.pc = "open"
    /\ writer.ret = "SchemaMismatch"
    /\ ~writer.batch_schema_ok
    /\ writer.num_rows = 3
    /\ writer.written = 3
    /\ writer.buffer + writer.in_progress = 3
    /\ writer.store = {}
    /\ writer.files_written = <<>>
    /\ writer.part_counter = 0

\* After a chunk the flush starts exactly when the buffered bytes and the
\* encoder's in-progress size come to the target or more.
C26_FlushAtTarget ==
    (writer.pc = "chunk" /\ writer' # writer /\ writer'.pc # "failed") =>
        (writer'.pc = "flush" <=>
            writer'.buffer + writer'.in_progress >= writer.target_file_size)

\* An upload inside write is that of a flush started at the target or above;
\* so is every file made inside write, and the file made by close is the last.
C26_EstimatedAtTarget ==
    /\ (writer.caller = "write" /\ writer.pc \in {"put_multipart", "upload", "join"}) =>
          writer.flush_estimate >= writer.target_file_size
    /\ \A i \in 1..Len(writer.files_written) :
          LET f == writer.files_written[i]
          IN /\ f.by = "write" => f.estimated_size >= writer.target_file_size
             /\ f.by = "close" => i = Len(writer.files_written) /\ writer.pc = "closed"
    /\ Cardinality({i \in 1..Len(writer.files_written) :
                      writer.files_written[i].estimated_size < writer.target_file_size}) <= 1

C31_CompleteOnlyIfAllPartsUploaded ==
    [][(writer'.store # writer.store \/ writer'.files_written # writer.files_written)
           => ~writer.part_failed]_vars

\* What the code keeps of C31: a part that fails in the last loop of joins
\* ends the flush with an error, with no object completed and no Add.
C31_FailureAtLastJoinsEndsFlush ==
    [][(writer.pc = "join" /\ writer'.ret = "PartUpload")
           => /\ writer'.pc = "failed"
              /\ writer'.store = writer.store
              /\ writer'.files_written = writer.files_written]_vars

\* A flush of eleven parts or more returned an error for a part joined in
\* the last loop.
C31_WitnessLastJoins ==
    /\ writer.pc = "failed" /\ writer.ret = "PartUpload"
    /\ Len(writer.parts) > max_concurrent_tasks
    /\ ~writer.part_failed

\* ---------------------------------------------------------------- C32
\* The names a log store driver can carry: the two of the conditional-put
\* drivers and two of the others.
DriverNames == {"DefaultLogStore", "LakeFSLogStore", "S3DynamoDbLogStore", "Other"}

\* The prepare stage got as far as the payload: it was neither refused by
\* the protocol gate nor by the serialization.
PreparedPayload(p) ==
    /\ pc[p] \notin {"builder", "precommit"}
    /\ result[p].kind \notin {"ProtocolGate", "SerializeLogJson"}

\* C32: a prepare stage that got as far as the payload calls store.put for a
\* staged temp object, once and before any other call, if and only if the
\* driver's name is neither DefaultLogStore nor LakeFSLogStore; it then
\* holds a TmpCommit where the put succeeded and returns the put's error
\* where it failed.  For the two conditional-put names it makes no storage
\* write and holds LogBytes.  Only a pipeline that staged owns a temp object,
\* and it owns one (tmp is keyed by pipeline: a uuid per prepare stage).
C32_StagedIffNotConditionalPut ==
    /\ \A n \in DriverNames :
          UsesConditionalPut(n) <=> n \in {"DefaultLogStore", "LakeFSLogStore"}
    /\ \A p \in Pipelines :
          /\ PutIdx(p) \subseteq {1}
          /\ p \in tmp => (PutIdx(p) = {1} /\ ops[p][1].r = "Ok")
          /\ PutIdx(p) # {} => PreparedPayload(p)
          /\ PreparedPayload(p) =>
                IF logStoreName \in {"DefaultLogStore", "LakeFSLogStore"}
                THEN /\ PutIdx(p) = {}
                     /\ commit_or_bytes[p] = "LogBytes"
                     /\ p \notin tmp
                ELSE /\ PutIdx(p) = {1}
                     /\ IF ops[p][1].r = "Ok"
                        THEN commit_or_bytes[p] = "TmpCommit"
                        ELSE /\ commit_or_bytes[p] = "none"
                             /\ result[p] = Returned("PutError", 0, 0)
                             /\ p \notin tmp

\* C32 witness: both pipelines of a rename-based driver staged a temp object
\* of their own, and none of them has gone further.
C32_Witness ==
    /\ logStoreName = "S3DynamoDbLogStore"
    /\ tmp = Pipelines
    /\ \A p \in Pipelines : pc[p] = "prepared" /\ commit_or_bytes[p] = "TmpCommit"

\* C32 witness: a pipeline of a conditional-put driver is prepared with
\* LogBytes and has called nothing on storage.
C32_WitnessLogBytes ==
    \E p \in Pipelines :
        /\ logStoreName = "DefaultLogStore"
        /\ pc[p] = "prepared" /\ commit_or_bytes[p] = "LogBytes" /\ ops[p] = <<>>

\* ---------------------------------------------------------------- C33
\* The post-commit calls of a pipeline by their kind.
CallIdx(p, names) == {i \in 1..Len(post[p].calls) : post[p].calls[i].op \in names}
BeforeIdx(p) == CallIdx(p, {"before_post_commit_hook"})
AfterIdx(p) == CallIdx(p, {"after_post_commit_hook"})
WorkIdx(p) == CallIdx(p, {"create_checkpoint_for", "cleanup_expired_logs_for", "try_new"})

\* The post-commit stage went past its first hook, or returned from there.
PastBeforeHook(p) ==
    \/ pc[p] \in {"checkpoint", "cleanup", "rematerialize", "after_hook"}
    \/ pc[p] = "returned" /\ finalized[p].kind \notin {"UpdateError", "AdvanceError"}

\* C33: post-commit on an existing table with a handler set calls
\* before_post_commit_hook once, before any checkpoint, cleanup or reload, and
\* after_post_commit_hook at most once, as its last call, after them (once
\* where none of them failed); both get the flag cleanup_logs ||
\* create_checkpoint and the operation id made at the start of the stage.
\* When the before hook fails it is the last call: no checkpoint is written,
\* no log file deleted and the after hook is not called.
C33_HooksAroundPostCommitWork ==
    \A p \in Pipelines :
        (table_data[p] # NoTable /\ post[p].handler) =>
            LET calls == post[p].calls
                flag == post[p].cleanup_logs \/ post[p].create_checkpoint
            IN /\ Cardinality(BeforeIdx(p)) <= 1
               /\ Cardinality(AfterIdx(p)) <= 1
               /\ PastBeforeHook(p) => Cardinality(BeforeIdx(p)) = 1
               /\ \A i \in WorkIdx(p) \cup AfterIdx(p) :
                     \E b \in BeforeIdx(p) : b < i /\ calls[b].r = "Ok"
               /\ \A a \in AfterIdx(p) : a = Len(calls)
               /\ (pc[p] = "returned" /\ finalized[p].kind \in {"Ok", "AfterHookError"})
                     <=> AfterIdx(p) # {}
               /\ \A i \in BeforeIdx(p) \cup AfterIdx(p) :
                     /\ calls[i].flag = flag
                     /\ calls[i].id = post[p].post_commit_operation_id
                     /\ calls[i].id \in Uuids
               /\ \A b \in BeforeIdx(p) :
                     calls[b].r # "Ok" =>
                        /\ b = Len(calls)
                        /\ pc[p] = "returned"
                        /\ finalized[p].kind = "BeforeHookError"
                        /\ checkpoints = {} /\ cleaned = {}

\* C33 witness: with a handler, both hooks were called with a true flag around
\* a checkpoint and a cleanup that deleted log files.
C33_Witness ==
    \E p \in Pipelines :
        /\ table_data[p] # NoTable /\ post[p].handler
        /\ pc[p] = "returned" /\ finalized[p].kind = "Ok"
        /\ CallIdx(p, {"create_checkpoint_for"}) # {}
        /\ CallIdx(p, {"cleanup_expired_logs_for"}) # {}
        /\ finalized[p].num_log_files_cleaned_up > 0
        /\ \A i \in BeforeIdx(p) \cup AfterIdx(p) : post[p].calls[i].flag

\* C33 witness: the before hook failed where a checkpoint was due.
C33_WitnessBeforeHookFails ==
    \E p \in Pipelines :
        /\ table_data[p] # NoTable /\ post[p].handler
        /\ finalized[p].kind = "BeforeHookError"
        /\ post[p].create_checkpoint /\ post[p].require_files
        /\ CheckpointDue(version[p], post[p].checkpoint_interval)

\* C33 witness: the hooks were told that nothing was asked for.
C33_WitnessFalseFlag ==
    \E p \in Pipelines :
        /\ table_data[p] # NoTable /\ post[p].handler
        /\ finalized[p].kind = "Ok"
        /\ \A i \in BeforeIdx(p) \cup AfterIdx(p) : ~post[p].calls[i].flag

\* ---------------------------------------------------------------- C34
\* The cleanup override the builder was given: None without post-commit-hook
\* properties.
BuilderOverride(p) ==
    IF post[p].hook.some THEN post[p].hook.cleanup_expired_logs ELSE "None"

\* The post-commit stage went past its cleanup, or returned from there.
PastCleanup(p) ==
    \/ pc[p] \in {"rematerialize", "after_hook"}
    \/ pc[p] = "returned"
       /\ finalized[p].kind \in {"CleanupError", "TryNewError", "AfterHookError", "Ok"}

\* C34: post-commit on an existing table that gets as far as the cleanup
\* calls cleanup_expired_logs_for, once, if and only if the builder's
\* override is Some(true), or it is None (or the builder has no post-commit
\* properties) and the table config enables the cleanup.  The state is
\* loaded again from storage if and only if the call returned a count above
\* 0, and num_log_files_cleaned_up is that count: the number of log files
\* deleted.
C34_CleanupIff ==
    \A p \in Pipelines :
        table_data[p] # NoTable =>
            LET calls == post[p].calls
                cleanup == CallIdx(p, {"cleanup_expired_logs_for"})
                reload == CallIdx(p, {"try_new"})
                wanted == \/ BuilderOverride(p) = "SomeTrue"
                          \/ BuilderOverride(p) = "None" /\ post[p].enable_expired_log_cleanup
            IN /\ Cardinality(cleanup) <= 1
               /\ cleanup # {} => wanted
               /\ PastCleanup(p) => (cleanup # {} <=> wanted)
               /\ post[p].num_log_files_cleaned_up = Cardinality(cleaned)
               /\ post[p].num_log_files_cleaned_up > 0 =>
                     \E c \in cleanup : calls[c].r = "Ok"
               /\ Cardinality(reload) <= 1
               /\ \A r \in reload :
                     /\ post[p].num_log_files_cleaned_up > 0
                     /\ \E c \in cleanup : c < r
               /\ (pc[p] = "after_hook" \/ (pc[p] = "returned" /\
                      finalized[p].kind \in {"TryNewError", "AfterHookError", "Ok"}))
                     => (reload # {} <=> post[p].num_log_files_cleaned_up > 0)
               /\ PostReturnedOk(p) =>
                     finalized[p].num_log_files_cleaned_up = Cardinality(cleaned)

\* C34 witness: without an override, on a table that enables the cleanup,
\* the cleanup deleted log files and the state was loaded again.
C34_Witness ==
    \E p \in Pipelines :
        /\ table_data[p] # NoTable
        /\ BuilderOverride(p) = "None" /\ post[p].enable_expired_log_cleanup
        /\ PostReturnedOk(p)
        /\ finalized[p].num_log_files_cleaned_up > 0
        /\ CallIdx(p, {"try_new"}) # {}

\* C34 witness: Some(false) on a table that enables the cleanup: no call.
C34_WitnessOverrideFalse ==
    \E p \in Pipelines :
        /\ table_data[p] # NoTable
        /\ BuilderOverride(p) = "SomeFalse" /\ post[p].enable_expired_log_cleanup
        /\ PostReturnedOk(p)
        /\ CallIdx(p, {"cleanup_expired_logs_for"}) = {}

\* C34 witness: Some(true) on a table that does not enable the cleanup; the
\* call found nothing to delete and the state was not loaded again.
C34_WitnessOverrideTrue ==
    \E p \in Pipelines :
        /\ table_data[p] # NoTable
        /\ BuilderOverride(p) = "SomeTrue" /\ ~post[p].enable_expired_log_cleanup
        /\ PostReturnedOk(p)
        /\ CallIdx(p, {"cleanup_expired_logs_for"}) # {}
        /\ finalized[p].num_log_files_cleaned_up = 0
        /\ CallIdx(p, {"try_new"}) = {}

\* C34 witness: a builder without post-commit properties on a table that
\* enables the cleanup: the cleanup is called.
C34_WitnessNoProperties ==
    \E p \in Pipelines :
        /\ table_data[p] # NoTable
        /\ ~post[p].hook.some /\ post[p].enable_expired_log_cleanup
        /\ CallIdx(p, {"cleanup_expired_logs_for"}) # {}

\* ---------------------------------------------------------------- C35
\* C35: the post-commit stage of a pipeline without a table reference makes
\* one call, the load of the state at the committed version: it calls no
\* hook of the handler, writes no checkpoint and deletes no log file,
\* whatever post-commit properties and handler the builder was given; the
\* PostCommit it runs on holds create_checkpoint false and no cleanup
\* override, and the FinalizedCommit it returns has new_checkpoint_created
\* false and num_log_files_cleaned_up 0.
C35_CreationDoesNoPostCommitWork ==
    \A p \in Pipelines :
        (table_data[p] = NoTable /\ pc[p] \in {"postcommit", "returned"}) =>
            /\ ~post[p].create_checkpoint
            /\ post[p].cleanup_expired_logs = "None"
            /\ checkpoints = {} /\ cleaned = {}
            /\ post[p].calls = IF pc[p] = "postcommit" THEN <<>>
                               ELSE <<PostCall("try_new", FALSE,
                                               IF finalized[p].kind = "Ok"
                                               THEN "Ok" ELSE "TryNewError")>>
            /\ pc[p] = "returned" =>
                  /\ finalized[p].kind \in {"Ok", "TryNewError"}
                  /\ ~finalized[p].new_checkpoint_created
                  /\ finalized[p].num_log_files_cleaned_up = 0
                  /\ finalized[p].kind = "Ok" => finalized[p].version = 0

\* C35 witness: a creation returned its FinalizedCommit for a builder that
\* asked for a checkpoint at every version and for the cleanup, with a
\* handler set, on a load config with files.
C35_Witness ==
    \E p \in Pipelines :
        /\ table_data[p] = NoTable
        /\ PostReturnedOk(p)
        /\ post[p].hook.some /\ post[p].hook.create_checkpoint
        /\ post[p].hook.cleanup_expired_logs = "SomeTrue"
        /\ post[p].handler /\ post[p].require_files
        /\ post[p].checkpoint_interval = 1

\* ---------------------------------------------------------------- C36
\* C36: the versions of a pipeline's successive write_commit_entry calls are
\* strictly increasing, and a call that was told VersionAlreadyExists at v
\* is not the last word on v: v is installed, by another writer, and every
\* later call targets a version above v.  (get_latest_version returns the
\* highest installed version.)
C36_VersionsIncrease ==
    \A p \in Pipelines :
        /\ \A i, j \in WriteIdx(p) : i < j => ops[p][i].v < ops[p][j].v
        /\ \A i \in VaeIdx(p) :
              /\ Installed(ops[p][i].v)
              /\ \A j \in WriteIdx(p) : j > i => ops[p][j].v > ops[p][i].v

\* C36 witness: a pipeline was told VersionAlreadyExists at version 1 and
\* installed at version 3, two versions up for another install in between.
C36_Witness ==
    \E p \in Pipelines :
        \E i \in VaeIdx(p), j \in WriteIdx(p) :
            /\ i < j
            /\ ops[p][i].v = 1
            /\ ops[p][j].v = 3 /\ ops[p][j].r = "Ok"

\* C36 witness: a pipeline was told VersionAlreadyExists twice, at
\* versions next to each other.
C36_WitnessTwice ==
    \E p \in Pipelines :
        \E i, j \in VaeIdx(p) : i < j /\ ops[p][j].v = ops[p][i].v + 1

\* ---------------------------------------------------------------- C37
RECURSIVE SumRows(_)
SumRows(files) == IF files = <<>> THEN 0 ELSE Head(files).num_rows + SumRows(Tail(files))

\* The Adds are in flush order under part numbers that grow, and the store
\* holds one object for each of them and no other.
OneObjectPerAdd ==
    LET files == writer.files_written
    IN /\ \A i, j \in 1..Len(files) : i < j => files[i].part < files[j].part
       /\ \A i \in 1..Len(files) : files[i].part \in 1..writer.part_counter
       /\ {o.part : o \in writer.store} = {files[i].part : i \in 1..Len(files)}
       /\ Cardinality(writer.store) = Len(files)

C37_WitnessRowsLost ==
    /\ writer.pc = "closed"
    /\ writer.write_failed
    /\ writer.accepted_rows > SumRows(writer.files_written)

CeilDiv(n, p) == (n + p - 1) \div p

C38_WitnessMultiple ==
    /\ writer.pc = "closed"
    /\ writer.part_size = 2
    /\ writer.parts = <<2, 2>>
    /\ writer.file_size = 4

\* C38 witness: a file smaller than the part size went up in one part.
C38_WitnessOnePart ==
    /\ writer.pc = "closed"
    /\ writer.part_size = 2
    /\ writer.parts = <<1>>
    /\ writer.file_size = 1

\* ---------------------------------------------------------------- C39
\* The part size the claim gives for a value of DELTARS_UPLOAD_PART_SIZE.
ClaimedPartSize(env) ==
    CASE env.kind # "number" -> Size(0, 5 * 1024 * 1024)
      [] env.size.hi = 0 /\ env.size.lo < 5 * 1024 * 1024 -> Size(0, 5 * 1024 * 1024)
      [] env.size.hi > 5 \/ (env.size.hi = 5 /\ env.size.lo > 0) -> Size(5, 0)
      [] OTHER -> env.size

\* C39: what upload_part_size returns is between 5 MiB and 5 GiB: 5 MiB
\* where the variable is unset, does not parse as a usize or is below 5 MiB,
\* 5 GiB where it is above 5 GiB, and its value else, for the variable as it
\* was at the first call; every later call returns the same, whatever the
\* variable is by then.
C39_PartSizeClampedOnce ==
    process.ret.some =>
        /\ ~Less(process.ret.value, Size(0, 5 * 1024 * 1024))
        /\ ~Less(Size(5, 0), process.ret.value)
        /\ process.ret.value = ClaimedPartSize(process.first_env)
        /\ process.UPLOAD_SIZE = [set |-> TRUE, value |-> process.ret.value]

\* C39 witness: the first call found a value above 5 GiB and returned 5 GiB,
\* and a call after the variable was set to 1 GiB returned 5 GiB again.
C39_Witness ==
    /\ process.first_env = EnvValue("number", Size(6, 0))
    /\ process.env = EnvValue("number", Size(1, 0))
    /\ process.called_after_change
    /\ process.ret = [some |-> TRUE, value |-> Size(5, 0)]

\* C39 witness: a value between the limits is returned as it is.
C39_WitnessInRange ==
    /\ process.first_env = EnvValue("number", Size(4, GiB - 1))
    /\ process.ret = [some |-> TRUE, value |-> Size(4, GiB - 1)]

\* C39 witness: the default for a variable that does not parse, kept after
\* the variable was set to a number in range.
C39_WitnessUnparseable ==
    /\ process.first_env.kind \in {"text", "huge"}
    /\ process.env = EnvValue("number", Size(1, 0))
    /\ process.called_after_change
    /\ process.ret = [some |-> TRUE, value |-> Size(0, 5 * 1024 * 1024)]

====
